---------------------------- MODULE Spec2Model ----------------------------
(***************************************************************************)
(* Asset-generation pipeline of Contens_Maker: runWithRetry,               *)
(* executeAssetGeneration, saveToIndexedDB (services/pipeline) and the     *)
(* Dashboard handlers that start, pause and regenerate.                    *)
(*                                                                         *)
(* JavaScript runs one synchronous segment at a time, so every action is   *)
(* the completion of one await (a remote call, a timer, a store write) or  *)
(* one UI event, followed by all the synchronous code up to the next       *)
(* await.                                                                  *)
(***************************************************************************)
EXTENDS Naturals, Sequences, FiniteSets

VARIABLES
  initialData,  \* Dashboard prop initialData: the scenes it was mounted with
  project,      \* Dashboard state `project`: a document (see DocScenes)
  isRunning,    \* Dashboard state `isRunning`
  stopped,      \* stopSignalRef.current.stopped
  timer,        \* the auto-start setTimeout is pending
  runs,         \* the executeAssetGeneration invocations, by start order
  regen,        \* the regenerateScene* calls in flight
  store,        \* the idb-keyval entry at DB_KEY
  oracle,       \* how the remote services answer (free, or fixed per call)
  budget,       \* what a behaviour may still do: runs to start, failures
                \* of the services and the store, regenerations to start
  rw,           \* one stand-alone runWithRetry invocation
  persist,      \* one stand-alone saveToIndexedDB / loadProject call
  localStorage, \* window.localStorage: the text stored under each key
  quotaLog      \* the quotaManager calls made so far, and the clock

vars == <<initialData, project, isRunning, stopped, timer, runs, regen,
          store, oracle, budget, rw, persist, localStorage, quotaLog>>

---------------------------------------------------------------------------
(* Bounds of the model *)

\* scenes in the document
NumScenes == 2
\* executeAssetGeneration invocations per behaviour (one more where
\* invocations overlap)
MaxRuns == 1
\* regenerateScene* calls per behaviour
MaxRegen == 1
\* largest `retries` argument tried on the stand-alone runWithRetry
MaxRetries == 3
\* failures (a throw, an empty answer, a failed write) per behaviour of the
\* Dashboard
MaxFaults == 1

(* Program constants *)
DefaultRetries == 3
DefaultBaseDelay == 4000
InterSceneDelay == 2000
MaxCuts == 4

Null == "null"

---------------------------------------------------------------------------
(* Error texts: a text is a sequence of characters, so that toLowerCase    *)
(* and includes are computed and not assumed.  ko_* stand for the Hangul   *)
(* syllables of the two Korean indicators.                                 *)

UpperChars == <<"A","B","C","D","E","F","G","H","I","J","K","L","M",
                "N","O","P","Q","R","S","T","U","V","W","X","Y","Z">>
LowerChars == <<"a","b","c","d","e","f","g","h","i","j","k","l","m",
                "n","o","p","q","r","s","t","u","v","w","x","y","z">>

ToLowerChar(ch) ==
  IF \E k \in 1..Len(UpperChars) : UpperChars[k] = ch
    THEN LowerChars[CHOOSE k \in 1..Len(UpperChars) : UpperChars[k] = ch]
    ELSE ch

ToLowerCase(s) == [k \in 1..Len(s) |-> ToLowerChar(s[k])]

Includes(s, sub) ==
  \E k \in 1..(Len(s) + 1) :
    /\ k + Len(sub) - 1 <= Len(s)
    /\ \A j \in 1..Len(sub) : s[k + j - 1] = sub[j]

TxtQuotaExceeded == <<"q","u","o","t","a"," ","e","x","c","e","e","d","e","d">>
TxtExceededQuota == <<"e","x","c","e","e","d","e","d"," ","q","u","o","t","a">>
TxtKoQuota == <<"ko_hal","ko_dang","ko_ryang">>
TxtQuota == <<"q","u","o","t","a">>
Txt429 == <<"4","2","9">>
TxtResourceExhausted ==
  <<"r","e","s","o","u","r","c","e","_","e","x","h","a","u","s","t","e","d">>
Txt503 == <<"5","0","3">>
TxtKoRate == <<"ko_sok","ko_do">>

\* error.message ? error.message.toLowerCase() : error.toString().toLowerCase()
ErrorText(message) ==
  IF message # <<>> THEN ToLowerCase(message)
                    ELSE ToLowerCase(<<"E","r","r","o","r">>)

IsQuotaText(msg) ==
  \/ Includes(msg, TxtQuotaExceeded)
  \/ Includes(msg, TxtExceededQuota)
  \/ Includes(msg, TxtKoQuota)
  \/ Includes(msg, TxtQuota)

IsTransientText(msg) ==
  \/ Includes(msg, Txt429)
  \/ Includes(msg, TxtResourceExhausted)
  \/ Includes(msg, Txt503)
  \/ Includes(msg, TxtKoRate)

(* Messages the remote services are made to fail with *)
MsgQuotaExceeded == <<"Q","u","o","t","a"," ","e","x","c","e","e","d","e","d">>
MsgKoQuota == <<"ko_hal","ko_dang","ko_ryang"," ","ko_cho","ko_gwa">>
Msg429 == <<"4","2","9"," ","T","o","o"," ","M","a","n","y">>
MsgResourceExhausted ==
  <<"R","E","S","O","U","R","C","E","_","E","X","H","A","U","S","T","E","D">>
Msg503 == <<"5","0","3">>
MsgKoRate == <<"ko_sok","ko_do"," ","ko_je","ko_han">>
Msg429Quota == <<"4","2","9"," ","q","u","o","t","a">>
MsgExhaustedQuota ==
  <<"5","0","3"," ","R","E","S","O","U","R","C","E","_","E","X","H","A","U",
    "S","T","E","D",":"," ","Q","u","o","t","a">>
MsgNetwork == <<"N","e","t","w","o","r","k">>
MsgEmpty == <<>>

AllMessages ==
  {MsgQuotaExceeded, MsgKoQuota, Msg429, MsgResourceExhausted, Msg503,
   MsgKoRate, Msg429Quota, MsgExhaustedQuota, MsgNetwork, MsgEmpty}

---------------------------------------------------------------------------
(* runWithRetry *)

\* The catch block: what runWithRetry does with a failure of fn, given the
\* retries and baseDelay of this level of the recursion.
RwCatchNoQuotaCheck(retries, baseDelay, message) ==
  LET msg == ErrorText(message) IN
  IF retries > 0 /\ (IsTransientText(msg) \/ IsQuotaText(msg))
    THEN [act |-> "retry", wait |-> baseDelay,
          retries |-> retries - 1, baseDelay |-> baseDelay * 2]
    ELSE [act |-> "null", wait |-> 0,
          retries |-> retries, baseDelay |-> baseDelay]

RwCatchNoDoubling(retries, baseDelay, message) ==
  LET msg == ErrorText(message) IN
  IF IsQuotaText(msg)
    THEN [act |-> "rethrow", wait |-> 0,
          retries |-> retries, baseDelay |-> baseDelay]
    ELSE IF retries > 0 /\ IsTransientText(msg)
      THEN [act |-> "retry", wait |-> baseDelay,
            retries |-> retries - 1, baseDelay |-> baseDelay]
      ELSE [act |-> "null", wait |-> 0,
            retries |-> retries, baseDelay |-> baseDelay]

RwCatchNoDecrement(retries, baseDelay, message) ==
  LET msg == ErrorText(message) IN
  IF IsQuotaText(msg)
    THEN [act |-> "rethrow", wait |-> 0,
          retries |-> retries, baseDelay |-> baseDelay]
    ELSE IF retries > 0 /\ IsTransientText(msg)
      THEN [act |-> "retry", wait |-> baseDelay,
            retries |-> retries, baseDelay |-> baseDelay * 2]
      ELSE [act |-> "null", wait |-> 0,
            retries |-> retries, baseDelay |-> baseDelay]

RwCatchRetriesAll(retries, baseDelay, message) ==
  LET msg == ErrorText(message) IN
  IF IsQuotaText(msg)
    THEN [act |-> "rethrow", wait |-> 0,
          retries |-> retries, baseDelay |-> baseDelay]
    ELSE IF retries > 0
      THEN [act |-> "retry", wait |-> baseDelay,
            retries |-> retries - 1, baseDelay |-> baseDelay * 2]
      ELSE [act |-> "null", wait |-> 0,
            retries |-> retries, baseDelay |-> baseDelay]

RwCatchTransientFirst(retries, baseDelay, message) ==
  LET msg == ErrorText(message) IN
  IF retries > 0 /\ IsTransientText(msg)
    THEN [act |-> "retry", wait |-> baseDelay,
          retries |-> retries - 1, baseDelay |-> baseDelay * 2]
    ELSE IF IsQuotaText(msg)
      THEN [act |-> "rethrow", wait |-> 0,
            retries |-> retries, baseDelay |-> baseDelay]
      ELSE [act |-> "null", wait |-> 0,
            retries |-> retries, baseDelay |-> baseDelay]

RwCatch(retries, baseDelay, message) ==
  LET msg == ErrorText(message) IN
  IF IsQuotaText(msg)
    THEN [act |-> "rethrow", wait |-> 0,
          retries |-> retries, baseDelay |-> baseDelay]
    ELSE IF retries > 0 /\ IsTransientText(msg)
      THEN [act |-> "retry", wait |-> baseDelay,
            retries |-> retries - 1, baseDelay |-> baseDelay * 2]
      ELSE [act |-> "null", wait |-> 0,
            retries |-> retries, baseDelay |-> baseDelay]


---------------------------------------------------------------------------
(* The stand-alone runWithRetry invocation `rw`: fn is any operation; each *)
(* invocation of fn returns a value or throws, and rw.history records what *)
(* it did, rw.waits the delays waited.                                     *)

ValueOutcome(v) == [kind |-> "value", val |-> v, n |-> 0, message |-> <<>>]
CutsOutcome(k) == [kind |-> "value", val |-> "cuts", n |-> k, message |-> <<>>]
ThrowOutcome(m) == [kind |-> "throw", val |-> Null, n |-> 0, message |-> m]
NullOutcome == ValueOutcome(Null)

BaseDelays == {DefaultBaseDelay, 1000}

RwIdle ==
  [status |-> "idle", retries |-> 0, baseDelay |-> 0, retries0 |-> 0,
   baseDelay0 |-> 0, history |-> <<>>, waits |-> <<>>, result |-> Null]

\* runWithRetry(fn, retries, baseDelay) is entered: fn() is awaited
RwEnter(retries, baseDelay) ==
  [status |-> "calling", retries |-> retries, baseDelay |-> baseDelay,
   retries0 |-> retries, baseDelay0 |-> baseDelay, history |-> <<>>,
   waits |-> <<>>, result |-> Null]

\* fn() settles: return its value, or run the catch block
RwFnSettles(out) ==
  /\ rw.status = "calling"
  /\ LET h == Append(rw.history, out) IN
     IF out.kind = "value"
       THEN rw' = [rw EXCEPT !.status = "returned", !.history = h,
                             !.result = out.val]
       ELSE LET d == RwCatch(rw.retries, rw.baseDelay, out.message) IN
            CASE d.act = "rethrow" ->
                   rw' = [rw EXCEPT !.status = "threw", !.history = h]
              [] d.act = "retry" ->
                   rw' = [rw EXCEPT !.status = "waiting", !.history = h,
                                    !.waits = Append(rw.waits, d.wait),
                                    !.retries = d.retries,
                                    !.baseDelay = d.baseDelay]
              [] d.act = "null" ->
                   rw' = [rw EXCEPT !.status = "returned", !.history = h,
                                    !.result = Null]

\* wait(baseDelay) elapses: the recursive call invokes fn again
RwWaitElapses ==
  /\ rw.status = "waiting"
  /\ rw' = [rw EXCEPT !.status = "calling"]


---------------------------------------------------------------------------
(* Scenes *)

FlagNames ==
  {"is_image_generated", "is_image_inspected", "is_audio_generated",
   "is_video_generated"}

PngName == <<"v", ".", "p", "n", "g">>

NoInspection == [detected_layout |-> "none", panel_count |-> 0,
                 description |-> "none"]

\* inspectImage's answer for the image at url
InspectionOf(url) == [detected_layout |-> "SINGLE", panel_count |-> 1,
                      description |-> url]

DefaultInspection == [detected_layout |-> "SINGLE", panel_count |-> 1,
                      description |-> "Auto-inspection failed"]

\* A scene as the writer and the director leave it: script and prompt done,
\* no asset yet, every generation flag false
FreshScene(index, type) ==
  [scene_index |-> index,
   type |-> type,
   planned_layout |-> "SINGLE",
   assets |-> [visual_url |-> Null, audio_url |-> Null,
               visual_filename |-> PngName],
   scripts |-> [narration |-> "narration", tts_text |-> Null],
   progress_status |-> [is_script_done |-> TRUE,
                        is_prompt_done |-> TRUE,
                        is_image_generated |-> FALSE,
                        is_image_inspected |-> FALSE,
                        is_audio_generated |-> FALSE,
                        is_video_generated |-> FALSE],
   inspection_data |-> NoInspection,
   cuts |-> <<>>,
   narration_full |-> Null]

\* String.prototype.replace(from, to) with a string pattern: the first
\* occurrence only
ReplaceFirst(s, from, to) ==
  IF ~Includes(s, from) THEN s
  ELSE LET k == CHOOSE k \in 1..Len(s) :
                  /\ k + Len(from) - 1 <= Len(s)
                  /\ \A j \in 1..Len(from) : s[k + j - 1] = from[j]
                  /\ \A m \in 1..(k - 1) :
                       ~(/\ m + Len(from) - 1 <= Len(s)
                         /\ \A j \in 1..Len(from) : s[m + j - 1] = from[j])
       IN SubSeq(s, 1, k - 1) \o to \o SubSeq(s, k + Len(from), Len(s))

(* The object each step assigns to scenes[i] *)

WithImage(scene, img) ==
  [scene EXCEPT !.assets.visual_url = img,
                !.progress_status.is_image_generated = TRUE]

WithInspectionOnlyOnSuccess(scene, inspection) ==
  IF inspection # Null
    THEN [scene EXCEPT !.inspection_data = InspectionOf(inspection),
                       !.progress_status.is_image_inspected = TRUE]
    ELSE scene

WithInspection(scene, inspection) ==
  [scene EXCEPT !.inspection_data =
                   IF inspection # Null THEN InspectionOf(inspection)
                                        ELSE DefaultInspection,
                !.progress_status.is_image_inspected = TRUE]

WithVideoKeepsName(scene, videoUrl) ==
  [scene EXCEPT !.assets.visual_url = videoUrl,
                !.progress_status.is_video_generated = TRUE]

WithVideo(scene, videoUrl) ==
  [scene EXCEPT !.assets.visual_url = videoUrl,
                !.assets.visual_filename =
                   ReplaceFirst(scene.assets.visual_filename,
                                <<".", "p", "n", "g">>, <<".", "m", "p", "4">>),
                !.progress_status.is_video_generated = TRUE]

WithGridNoBackup(scene, cuts, gridImg) ==
  [scene EXCEPT !.type = "image",
                !.planned_layout = "GRID_2X2",
                !.cuts = cuts,
                !.assets.visual_url = gridImg,
                !.progress_status.is_video_generated = FALSE]

WithGrid(scene, cuts, gridImg) ==
  [scene EXCEPT !.type = "image",
                !.planned_layout = "GRID_2X2",
                !.narration_full = scene.scripts.narration,
                !.cuts = cuts,
                !.assets.visual_url = gridImg,
                !.progress_status.is_video_generated = FALSE]

WithAudioResetsInspected(scene, audio) ==
  [scene EXCEPT !.assets.audio_url = audio,
                !.progress_status.is_audio_generated = TRUE,
                !.progress_status.is_image_inspected = FALSE]

WithAudio(scene, audio) ==
  [scene EXCEPT !.assets.audio_url = audio,
                !.progress_status.is_audio_generated = TRUE]

\* what || takes for false among the texts: undefined and the empty string
Falsy(text) == text \in {Null, ""}

TextToReadIgnoresBackup(scene) ==
  IF ~Falsy(scene.scripts.tts_text) THEN scene.scripts.tts_text
  ELSE scene.scripts.narration

\* scenes[i].scripts.tts_text || scenes[i].narration_full || scripts.narration
TextToRead(scene) ==
  IF ~Falsy(scene.scripts.tts_text) THEN scene.scripts.tts_text
  ELSE IF ~Falsy(scene.narration_full) THEN scene.narration_full
  ELSE scene.scripts.narration


---------------------------------------------------------------------------
(* executeAssetGeneration: one invocation is a record                      *)
(*   pc        "probe" | "call" | "wait" | "save" | "delay" : the await it *)
(*             is suspended at; "returned" | "threw" once it is over       *)
(*   fn        the remote call of pc = "call" / "wait"                     *)
(*   i         the loop index (1-based here, 0-based in the source)        *)
(*   scenes    the local array `scenes`                                    *)
(*   input     projectData.scenes as it was when the run copied it         *)
(*   isDirty, veoAvailable, cuts : the locals of those names               *)
(*   retries, baseDelay : the arguments of the runWithRetry level running  *)
(*   emitted   onUpdate has been called with a document holding `scenes`   *)
(*   ckpt      the scenes of the last newData given to onUpdate and        *)
(*             saveToIndexedDB                                             *)
(*   error     what the run threw                                          *)
(*   text      textToRead of the last generateSpeech call                  *)

NewRun(scenes) ==
  [pc |-> "probe", fn |-> "none", i |-> 1, scenes |-> scenes,
   input |-> scenes, isDirty |-> FALSE, veoAvailable |-> FALSE,
   cuts |-> <<>>, retries |-> 0, baseDelay |-> 0, emitted |-> FALSE,
   ckpt |-> scenes, error |-> <<>>, text |-> Null]

Returned(c) ==
  [c EXCEPT !.pc = "returned", !.fn = "none", !.retries = 0, !.baseDelay = 0,
            !.cuts = <<>>]

Threw(c, message) ==
  [c EXCEPT !.pc = "threw", !.fn = "none", !.retries = 0, !.baseDelay = 0,
            !.cuts = <<>>, !.error = message]

\* await runWithRetry(() => fn(...)) with the default retries and baseDelay
StartCall(c, fn) ==
  [c EXCEPT !.pc = "call", !.fn = fn, !.retries = DefaultRetries,
            !.baseDelay = DefaultBaseDelay]

\* await generateVideo(...): not wrapped in runWithRetry
StartVideo(c) ==
  [c EXCEPT !.pc = "call", !.fn = "video", !.retries = 0, !.baseDelay = 0]

SetSceneInPlace(c, scene) ==
  [c EXCEPT !.scenes[c.i] = scene, !.input[c.i] = scene, !.isDirty = TRUE]

\* scenes[i] = {...scenes[i], ...}: a new object in the local array
SetScene(c, scene) ==
  [c EXCEPT !.scenes[c.i] = scene, !.isDirty = TRUE]

(* The synchronous code from one point of the loop body to the next await, *)
(* last point first; s is stopSignal.stopped as read in this segment.      *)

\* if (!stopSignal.stopped) await wait(2000); then i++ and the loop test
EndOfScene(c, s) ==
  IF ~s THEN [c EXCEPT !.pc = "delay", !.fn = "none", !.retries = 0,
                       !.baseDelay = 0]
        ELSE Returned([c EXCEPT !.i = c.i + 1])

\* if (isDirty) { newData = {...projectData, scenes}; onUpdate(newData);
\*                await saveToIndexedDB(newData) }
SaveStep(c, s) ==
  IF c.isDirty
    THEN [c EXCEPT !.pc = "save", !.fn = "none", !.retries = 0,
                   !.baseDelay = 0, !.emitted = TRUE, !.ckpt = c.scenes]
    ELSE EndOfScene(c, s)

AudioStep(c, s) ==
  IF ~c.scenes[c.i].progress_status.is_audio_generated
    THEN [StartCall(c, "speech") EXCEPT !.text = TextToRead(c.scenes[c.i])]
    ELSE SaveStep(c, s)

Chk3NoBreak(c, s) == AudioStep(c, s)

\* if (stopSignal.stopped) break;  (before the audio step)
Chk3(c, s) == IF s THEN Returned(c) ELSE AudioStep(c, s)

\* the else branch of if (videoUrl): A. Split Narration
FallbackStart(c) == StartCall(c, "split")

VideoStepIgnoresProbe(c, s) ==
  IF /\ c.scenes[c.i].type = "video"
     /\ c.scenes[c.i].progress_status.is_image_generated
     /\ ~c.scenes[c.i].progress_status.is_video_generated
    THEN StartVideo(c)
    ELSE Chk3(c, s)

VideoStep(c, s) ==
  IF /\ c.scenes[c.i].type = "video"
     /\ c.scenes[c.i].progress_status.is_image_generated
     /\ ~c.scenes[c.i].progress_status.is_video_generated
    THEN IF c.veoAvailable THEN StartVideo(c) ELSE FallbackStart(c)
    ELSE Chk3(c, s)

\* if (stopSignal.stopped) break;  (before the video-or-fallback step)
Chk2(c, s) == IF s THEN Returned(c) ELSE VideoStep(c, s)

InspectStep(c, s) ==
  IF /\ c.scenes[c.i].progress_status.is_image_generated
     /\ ~c.scenes[c.i].progress_status.is_image_inspected
    THEN StartCall(c, "inspect")
    ELSE Chk2(c, s)

\* if (stopSignal.stopped) break;  (before the inspection step)
Chk1(c, s) == IF s THEN Returned(c) ELSE InspectStep(c, s)

ImageStepAlways(c, s) == StartCall(c, "image")

ImageStep(c, s) ==
  IF ~c.scenes[c.i].progress_status.is_image_generated
    THEN StartCall(c, "image")
    ELSE Chk1(c, s)

LoopTopProbesEachScene(c, s) ==
  IF c.i > Len(c.scenes) \/ s
    THEN Returned(c)
    ELSE IF c.pc # "probe"
           THEN [c EXCEPT !.pc = "probe"]
           ELSE ImageStep([c EXCEPT !.isDirty = FALSE], s)

\* the for statement's test, then if (stopSignal.stopped) break; isDirty = false
LoopTop(c, s) ==
  IF c.i > Len(c.scenes) \/ s
    THEN Returned(c)
    ELSE ImageStep([c EXCEPT !.isDirty = FALSE], s)

(* What follows each remote call, given what runWithRetry (or, for the     *)
(* video, the call itself) handed back.                                    *)

ImageDoneStopsOnNull(c, out, s) ==
  IF out.val # Null
    THEN Chk1(SetScene(c, WithImage(c.scenes[c.i], out.val)), s)
    ELSE Returned(c)

ImageDone(c, out, s) ==
  IF out.val # Null
    THEN Chk1(SetScene(c, WithImage(c.scenes[c.i], out.val)), s)
    ELSE Chk1(c, s)

InspectDone(c, out, s) ==
  Chk2(SetScene(c, WithInspection(c.scenes[c.i], out.val)), s)

SpeechDoneRevisitsVideo(c, out, s) ==
  IF out.val # Null
    THEN Chk2(SetScene(c, WithAudio(c.scenes[c.i], out.val)), s)
    ELSE SaveStep(c, s)

SpeechDone(c, out, s) ==
  IF out.val # Null
    THEN SaveStep(SetScene(c, WithAudio(c.scenes[c.i], out.val)), s)
    ELSE SaveStep(c, s)

GridDoneDowngradesAnyway(c, out, s) ==
  Chk3([SetScene(c, WithGrid(c.scenes[c.i], c.cuts, out.val))
          EXCEPT !.cuts = <<>>], s)

GridDone(c, out, s) ==
  IF out.val # Null
    THEN Chk3([SetScene(c, WithGrid(c.scenes[c.i], c.cuts, out.val))
                 EXCEPT !.cuts = <<>>], s)
    ELSE Chk3([c EXCEPT !.cuts = <<>>], s)

\* cuts = (await runWithRetry(split)) || [];  if (cuts.length > 0) ...
SplitDone(c, out, s) ==
  IF out.val # Null /\ out.n > 0
    THEN StartCall([c EXCEPT !.cuts = [k \in 1..out.n |-> k]], "grid")
    ELSE Chk3(c, s)

VideoDone(c, out, s) ==
  IF out.val # Null
    THEN Chk3(SetScene(c, WithVideo(c.scenes[c.i], out.val)), s)
    ELSE FallbackStart(c)

\* try { return await fn() } catch { ... } inside the run: what
\* runWithRetry does when fn settles with out: hand a value back (null
\* included), rethrow, or wait and call again
Wrapped(c, out) ==
  IF out.kind = "value" THEN [act |-> "value", out |-> out, c |-> c]
  ELSE LET d == RwCatch(c.retries, c.baseDelay, out.message) IN
       CASE d.act = "rethrow" -> [act |-> "rethrow", out |-> out, c |-> c]
         [] d.act = "retry" ->
              [act |-> "retry", out |-> out,
               c |-> [c EXCEPT !.pc = "wait", !.retries = d.retries,
                               !.baseDelay = d.baseDelay]]
         [] d.act = "null" -> [act |-> "value", out |-> NullOutcome, c |-> c]

\* what the loop body does with the value a wrapped call handed back
Continue(c, out, s) ==
  CASE c.fn = "image" -> ImageDone(c, out, s)
    [] c.fn = "inspect" -> InspectDone(c, out, s)
    [] c.fn = "split" -> SplitDone(c, out, s)
    [] c.fn = "grid" -> GridDone(c, out, s)
    [] c.fn = "speech" -> SpeechDone(c, out, s)

\* the remote call of the run settles with out
CallSettles(c, out, s) ==
  IF c.fn = "video"
    THEN IF out.kind = "throw" THEN Threw(c, out.message)
                               ELSE VideoDone(c, out, s)
    ELSE LET w == Wrapped(c, out) IN
         CASE w.act = "value" -> Continue(c, w.out, s)
           [] w.act = "rethrow" -> Threw(c, out.message)
           [] w.act = "retry" -> w.c


---------------------------------------------------------------------------
(* The remote services *)

Fns == {"image", "inspect", "video", "split", "grid", "speech"}

PipelineMessages == {MsgQuotaExceeded, Msg429, MsgNetwork}

Throws(messages) == {ThrowOutcome(m) : m \in messages}

\* what a call of fn made by run c may answer when the services are free
FreeOutcomes(c) ==
  CASE c.fn = "image" -> {ValueOutcome("img")} \cup Throws(PipelineMessages)
    [] c.fn = "grid" -> {ValueOutcome("grid")} \cup Throws(PipelineMessages)
    [] c.fn = "inspect" ->
         {ValueOutcome(c.scenes[c.i].assets.visual_url)}
           \cup Throws(PipelineMessages)
    [] c.fn = "speech" -> {ValueOutcome("aud")} \cup Throws(PipelineMessages)
    [] c.fn = "video" ->
         {ValueOutcome("vid"), NullOutcome} \cup Throws(PipelineMessages)
    [] c.fn = "split" ->
         {CutsOutcome(k) : k \in 0..MaxCuts} \cup Throws(PipelineMessages)

\* the answer a fixed service gives to the call of run c, by its token
Answer(c, token) ==
  CASE token = "quota" -> ThrowOutcome(MsgQuotaExceeded)
    [] token = "transient" -> ThrowOutcome(Msg429)
    [] token = "other" -> ThrowOutcome(MsgNetwork)
    [] token = "empty" ->
         IF c.fn = "split" THEN CutsOutcome(0) ELSE NullOutcome
    [] token = "ok" ->
         CASE c.fn = "image" -> ValueOutcome("img")
           [] c.fn = "grid" -> ValueOutcome("grid")
           [] c.fn = "inspect" ->
                ValueOutcome(c.scenes[c.i].assets.visual_url)
           [] c.fn = "speech" -> ValueOutcome("aud")
           [] c.fn = "video" -> ValueOutcome("vid")
           [] c.fn = "split" -> CutsOutcome(MaxCuts)

FreeOracle == [free |-> TRUE, veo |-> FALSE, out |-> <<>>]

\* an answer that is a failure: a throw, no value, fewer cuts than asked
IsFault(out) ==
  out.kind = "throw" \/ out.val = Null \/ (out.val = "cuts" /\ out.n < MaxCuts)

Cost(out) == IF IsFault(out) THEN 1 ELSE 0

Outcomes(c) ==
  IF oracle.free
    THEN {out \in FreeOutcomes(c) : Cost(out) <= budget.faults}
    ELSE {Answer(c, oracle.out[c.i][c.fn])}

VeoAnswers == IF oracle.free THEN BOOLEAN ELSE {oracle.veo}

SaveAnswers == IF oracle.free /\ budget.faults > 0 THEN BOOLEAN ELSE {TRUE}

---------------------------------------------------------------------------
(* The stand-alone calls of the persistence gateway and of quotaManager   *)
(* as they are while the Dashboard runs: none made                        *)

\* op "save" | "load"; status "idle", "set" / "get" while the store call is
\* awaited, "returned"; data the argument of saveToIndexedDB, stamped its
\* dataWithTimestamp, ok whether the store call succeeded, result what the
\* call returned, now the last reading of Date.now(), last the argument and
\* the stamp of the last save that succeeded
\* null or undefined where a document is expected
NullValue == [null |-> TRUE]

\* meta.timestamp of a document that was never saved; the first reading of
\* the clock
NoTimestamp == 0
FirstClock == 2

PersistIdle ==
  [op |-> "none", status |-> "idle", data |-> NullValue,
   stamped |-> NullValue, ok |-> TRUE, result |-> NullValue,
   now |-> FirstClock, last |-> NullValue]

\* no key of localStorage holds a text
EmptyStorage == [key \in {} |-> <<>>]

\* the first day, the clock at its first reading, no quotaManager call yet
NoCalls == [day |-> 1, now |-> FirstClock, calls |-> <<>>]

---------------------------------------------------------------------------
(* Documents, the store and the Dashboard *)

\* A document is {...projectData, scenes}: its scenes are either an array of
\* its own (run = 0) or the live local array of run `run`
ValueDoc(scenes) == [run |-> 0, scenes |-> scenes]
SnapshotOf(r) == [run |-> r, scenes |-> <<>>]

DocScenes(d) == IF d.run = 0 THEN d.scenes ELSE runs[d.run].scenes

EmptyStore == [present |-> FALSE, scenes |-> <<>>]

\* set(DB_KEY, {...data, meta: {...}}): a structured clone of the document
Saved(scenes) == [present |-> TRUE, scenes |-> scenes]

InitialScenes(index) ==
  {FreshScene(index, "image"), FreshScene(index, "video")}

InitialDocs ==
  {d \in [1..NumScenes -> UNION {InitialScenes(k) : k \in 1..NumScenes}] :
     \A k \in 1..NumScenes : d[k] \in InitialScenes(k)}

InFlight(c) == c.pc = "call"
Over(c) == c.pc \in {"returned", "threw"}

\* run r moves to c2: onUpdate(newData) is setProject(newData); the finally
\* of startPipeline is setIsRunning(false)
Advance(r, c2) ==
  /\ runs' = [runs EXCEPT ![r] = c2]
  /\ project' = IF c2.pc = "save" /\ runs[r].pc # "save"
                  THEN SnapshotOf(r) ELSE project
  /\ isRunning' = IF Over(c2) THEN FALSE ELSE isRunning

\* startPipeline of the render whose `project` is d
StartPipeline(d) ==
  /\ budget.runs > 0
  /\ budget' = [budget EXCEPT !.runs = budget.runs - 1]
  /\ stopped' = FALSE
  /\ isRunning' = TRUE
  /\ runs' = Append(runs, NewRun(DocScenes(d)))
  /\ UNCHANGED <<initialData, project, regen, store, oracle, rw,
                 persist, localStorage, quotaLog>>

TogglePipeline ==
  /\ \/ /\ isRunning
        /\ stopped' = TRUE
        /\ isRunning' = FALSE
        /\ UNCHANGED <<initialData, project, runs, regen, store, oracle,
                       budget, rw, persist, localStorage, quotaLog>>
     \/ /\ ~isRunning
        /\ StartPipeline(project)
  /\ UNCHANGED timer

\* the setTimeout callback of the mount effect: it closes over the first
\* render, whose isRunning is false and whose project is initialData
AutoStart ==
  /\ timer
  /\ timer' = FALSE
  /\ StartPipeline(ValueDoc(initialData))

\* await checkVeoAvailability() settles
ProbeSettles(r) ==
  /\ runs[r].pc = "probe"
  /\ \E veo \in VeoAnswers :
       Advance(r, LoopTop([runs[r] EXCEPT !.veoAvailable = veo], stopped))
  /\ UNCHANGED <<initialData, stopped, timer, regen, store, oracle, budget,
                 rw, persist, localStorage, quotaLog>>

\* the remote call fn of run r settles
CallOf(r, fn) ==
  /\ runs[r].pc = "call"
  /\ runs[r].fn = fn
  /\ \E out \in Outcomes(runs[r]) :
       /\ Advance(r, CallSettles(runs[r], out, stopped))
       /\ budget' = IF oracle.free
                      THEN [budget EXCEPT !.faults = budget.faults - Cost(out)]
                      ELSE budget
  /\ UNCHANGED <<initialData, stopped, timer, regen, store, oracle, rw,
                 persist, localStorage, quotaLog>>

ImageSettles(r) == CallOf(r, "image")
InspectSettles(r) == CallOf(r, "inspect")
VideoSettles(r) == CallOf(r, "video")
SplitSettles(r) == CallOf(r, "split")
GridSettles(r) == CallOf(r, "grid")
SpeechSettles(r) == CallOf(r, "speech")

\* await wait(baseDelay) of runWithRetry elapses: fn is invoked again
BackoffElapses(r) ==
  /\ runs[r].pc = "wait"
  /\ Advance(r, [runs[r] EXCEPT !.pc = "call"])
  /\ UNCHANGED <<initialData, stopped, timer, regen, store, oracle, budget,
                 rw, persist, localStorage, quotaLog>>

\* await saveToIndexedDB(newData) settles: the write succeeded or failed
SaveSettles(r) ==
  /\ runs[r].pc = "save"
  /\ \E ok \in SaveAnswers :
       /\ store' = IF ok THEN Saved(runs[r].ckpt) ELSE store
       /\ budget' = IF ok THEN budget
                      ELSE [budget EXCEPT !.faults = budget.faults - 1]
  /\ Advance(r, EndOfScene(runs[r], stopped))
  /\ UNCHANGED <<initialData, stopped, timer, regen, oracle, rw,
                 persist, localStorage, quotaLog>>

\* await wait(2000) elapses: i++ and the next iteration
DelayElapses(r) ==
  /\ runs[r].pc = "delay"
  /\ Advance(r, LoopTop([runs[r] EXCEPT !.i = runs[r].i + 1], stopped))
  /\ UNCHANGED <<initialData, stopped, timer, regen, store, oracle, budget,
                 rw, persist, localStorage, quotaLog>>


---------------------------------------------------------------------------
(* Individual regeneration *)

HasScene(scenes, index) ==
  \E k \in 1..Len(scenes) : scenes[k].scene_index = index

RegenImageMapClearsGenerated(scenes, index, url) ==
  [k \in 1..Len(scenes) |->
     IF scenes[k].scene_index = index
       THEN [scenes[k] EXCEPT !.assets.visual_url = url,
                              !.progress_status.is_image_generated = FALSE]
       ELSE scenes[k]]

\* prev.scenes.map(s => s.scene_index === index ? {...} : s) of
\* regenerateSceneImage
RegenImageMap(scenes, index, url) ==
  [k \in 1..Len(scenes) |->
     IF scenes[k].scene_index = index
       THEN [scenes[k] EXCEPT !.assets.visual_url = url,
                              !.progress_status.is_image_generated = TRUE,
                              !.progress_status.is_image_inspected = FALSE]
       ELSE scenes[k]]

\* the same of regenerateSceneAudio
RegenAudioMap(scenes, index, url) ==
  [k \in 1..Len(scenes) |->
     IF scenes[k].scene_index = index
       THEN [scenes[k] EXCEPT !.assets.audio_url = url,
                              !.progress_status.is_audio_generated = TRUE]
       ELSE scenes[k]]

\* project.scenes.find(s => s.scene_index === index)
Find(scenes, index) ==
  scenes[CHOOSE k \in 1..Len(scenes) :
           /\ scenes[k].scene_index = index
           /\ \A j \in 1..(k - 1) : scenes[j].scene_index # index]

\* regenerateSceneImage / regenerateSceneAudio up to the await of the
\* generation call; text is textToRead of regenerateSceneAudio
RegenerateScene(index, kind) ==
  /\ ~isRunning
  /\ budget.regens > 0
  /\ budget' = [budget EXCEPT !.regens = budget.regens - 1]
  /\ \A g \in regen : g.index # index
  /\ HasScene(DocScenes(project), index)
  /\ regen' = regen \cup
       {[index |-> index, kind |-> kind,
         text |-> IF kind = "audio"
                    THEN TextToRead(Find(DocScenes(project), index))
                    ELSE Null]}
  /\ UNCHANGED <<initialData, project, isRunning, stopped, timer, runs,
                 store, oracle, rw,
                 persist, localStorage, quotaLog>>

RegenerateSceneImage(index) == RegenerateScene(index, "image")
RegenerateSceneAudio(index) == RegenerateScene(index, "audio")

\* the generation call of a regeneration settles: on a url,
\* setProject(prev => ...) and saveToIndexedDB(newData), not awaited
RegenSettles(g) ==
  /\ g \in regen
  /\ regen' = regen \ {g}
  /\ \/ /\ \E ok \in SaveAnswers :
             LET prev == DocScenes(project)
                 newScenes == IF g.kind = "image"
                                THEN RegenImageMap(prev, g.index, "regen")
                                ELSE RegenAudioMap(prev, g.index, "aud2")
             IN /\ project' = ValueDoc(newScenes)
                /\ store' = IF ok THEN Saved(newScenes) ELSE store
                /\ budget' = IF ok THEN budget
                             ELSE [budget EXCEPT !.faults = budget.faults - 1]
     \/ /\ budget.faults > 0
        /\ budget' = [budget EXCEPT !.faults = budget.faults - 1]
        /\ UNCHANGED <<project, store>>
  /\ UNCHANGED <<initialData, isRunning, stopped, timer, runs, oracle, rw,
                 persist, localStorage, quotaLog>>

---------------------------------------------------------------------------
(* The Dashboard with its pipeline runs *)

HasGeneratedAssets(scenes) ==
  \E k \in 1..Len(scenes) : scenes[k].progress_status.is_image_generated

\* The Dashboard as mounted on one of the documents docs, with budget b and
\* the services answering as o
Mounted(docs, b, o) ==
  /\ initialData \in docs
  /\ project = ValueDoc(initialData)
  /\ isRunning = FALSE
  /\ stopped = FALSE
  /\ timer = ~HasGeneratedAssets(initialData)
  /\ runs = <<>>
  /\ regen = {}
  /\ store = EmptyStore
  /\ oracle = o
  /\ budget = b
  /\ rw = RwIdle
  /\ persist = PersistIdle
  /\ localStorage = EmptyStorage
  /\ quotaLog = NoCalls

Init ==
  Mounted(InitialDocs,
          [runs |-> MaxRuns, faults |-> MaxFaults, regens |-> 0],
          FreeOracle)

Next ==
  \/ TogglePipeline
  \/ AutoStart
  \/ \E r \in 1..Len(runs) : ProbeSettles(r)
  \/ \E r \in 1..Len(runs) : ImageSettles(r)
  \/ \E r \in 1..Len(runs) : InspectSettles(r)
  \/ \E r \in 1..Len(runs) : VideoSettles(r)
  \/ \E r \in 1..Len(runs) : SplitSettles(r)
  \/ \E r \in 1..Len(runs) : GridSettles(r)
  \/ \E r \in 1..Len(runs) : SpeechSettles(r)
  \/ \E r \in 1..Len(runs) : BackoffElapses(r)
  \/ \E r \in 1..Len(runs) : SaveSettles(r)
  \/ \E r \in 1..Len(runs) : DelayElapses(r)

\* One Dashboard, one executeAssetGeneration invocation at most
Spec == Init /\ [][Next]_vars

---------------------------------------------------------------------------
(* The Dashboard where Start / Pause may start further invocations *)

MixedDoc == [k \in 1..NumScenes |->
               FreshScene(k, IF k = 1 THEN "video" ELSE "image")]

OverlapInit ==
  Mounted({MixedDoc},
          [runs |-> MaxRuns + 1, faults |-> MaxFaults, regens |-> 0],
          FreeOracle)

OverlapSpec == OverlapInit /\ [][Next]_vars

---------------------------------------------------------------------------
(* The Dashboard with the per-scene regeneration buttons *)

RegenInit ==
  Mounted(InitialDocs,
          [runs |-> MaxRuns, faults |-> MaxFaults, regens |-> MaxRegen],
          FreeOracle)

RegenNext ==
  \/ Next
  \/ \E index \in 1..NumScenes : RegenerateSceneImage(index)
  \/ \E index \in 1..NumScenes : RegenerateSceneAudio(index)
  \/ \E g \in regen : RegenSettles(g)

RegenSpec == RegenInit /\ [][RegenNext]_vars

---------------------------------------------------------------------------
(* The Dashboard over services whose answers are fixed per scene and call, *)
(* with invocations that follow one another: the Start button is pressed   *)
(* again only after the auto-start timer has fired and the invocation      *)
(* before has returned.                                                    *)

Profile(image, inspect, video, split, grid, speech) ==
  [fn \in Fns |->
     CASE fn = "image" -> image
       [] fn = "inspect" -> inspect
       [] fn = "video" -> video
       [] fn = "split" -> split
       [] fn = "grid" -> grid
       [] fn = "speech" -> speech]

Profiles ==
  {Profile("ok", "ok", "ok", "ok", "ok", "ok"),
   Profile("ok", "ok", "empty", "ok", "ok", "ok"),
   Profile("ok", "ok", "empty", "empty", "ok", "ok"),
   Profile("ok", "ok", "ok", "ok", "ok", "quota"),
   Profile("ok", "ok", "ok", "ok", "ok", "other"),
   Profile("other", "ok", "ok", "ok", "ok", "ok"),
   Profile("ok", "transient", "ok", "ok", "ok", "ok"),
   Profile("ok", "ok", "empty", "ok", "other", "ok"),
   Profile("ok", "quota", "ok", "ok", "ok", "ok")}

FixedOracles ==
  {[free |-> FALSE, veo |-> v, out |-> o] :
     v \in BOOLEAN, o \in [1..NumScenes -> Profiles]}

ResumeInit ==
  \E o \in FixedOracles :
    Mounted({MixedDoc},
            [runs |-> MaxRuns + 1, faults |-> 0, regens |-> 0], o)

Quiet == \A r \in 1..Len(runs) : Over(runs[r])

Pause == isRunning /\ TogglePipeline

Resume == ~isRunning /\ ~timer /\ Quiet /\ TogglePipeline

ResumeNext ==
  \/ AutoStart
  \/ Pause
  \/ Resume
  \/ \E r \in 1..Len(runs) : ProbeSettles(r)
  \/ \E r \in 1..Len(runs) : ImageSettles(r)
  \/ \E r \in 1..Len(runs) : InspectSettles(r)
  \/ \E r \in 1..Len(runs) : VideoSettles(r)
  \/ \E r \in 1..Len(runs) : SplitSettles(r)
  \/ \E r \in 1..Len(runs) : GridSettles(r)
  \/ \E r \in 1..Len(runs) : SpeechSettles(r)
  \/ \E r \in 1..Len(runs) : BackoffElapses(r)
  \/ \E r \in 1..Len(runs) : SaveSettles(r)
  \/ \E r \in 1..Len(runs) : DelayElapses(r)

ResumeSpec == ResumeInit /\ [][ResumeNext]_vars

\* One invocation run to its end with nobody pressing Pause: the record it
\* ends as, under the fixed services
RECURSIVE Uninterrupted(_)
Uninterrupted(c) ==
  CASE Over(c) -> c
    [] c.pc = "probe" ->
         Uninterrupted(LoopTop([c EXCEPT !.veoAvailable = oracle.veo], FALSE))
    [] c.pc = "call" ->
         Uninterrupted(CallSettles(c, Answer(c, oracle.out[c.i][c.fn]), FALSE))
    [] c.pc = "wait" -> Uninterrupted([c EXCEPT !.pc = "call"])
    [] c.pc = "save" -> Uninterrupted(EndOfScene(c, FALSE))
    [] c.pc = "delay" ->
         Uninterrupted(LoopTop([c EXCEPT !.i = c.i + 1], FALSE))

---------------------------------------------------------------------------
(* runWithRetry on its own, over an operation that may answer anything *)

RwOutcomes ==
  {ValueOutcome("value"), NullOutcome} \cup
  {ThrowOutcome(m) : m \in AllMessages}

RetryInit ==
  Mounted({MixedDoc}, [runs |-> 0, faults |-> 0, regens |-> 0], FreeOracle)

RwCall ==
  /\ rw.status = "idle"
  /\ \E retries \in 0..MaxRetries, baseDelay \in BaseDelays :
       rw' = RwEnter(retries, baseDelay)
  /\ UNCHANGED <<initialData, project, isRunning, stopped, timer, runs,
                 regen, store, oracle, budget,
                 persist, localStorage, quotaLog>>

RwSettles ==
  /\ \E out \in RwOutcomes : RwFnSettles(out)
  /\ UNCHANGED <<initialData, project, isRunning, stopped, timer, runs,
                 regen, store, oracle, budget,
                 persist, localStorage, quotaLog>>

RwBackoff ==
  /\ RwWaitElapses
  /\ UNCHANGED <<initialData, project, isRunning, stopped, timer, runs,
                 regen, store, oracle, budget,
                 persist, localStorage, quotaLog>>

RetryNext ==
  \/ RwCall
  \/ RwSettles
  \/ RwBackoff

RetrySpec == RetryInit /\ [][RetryNext]_vars

---------------------------------------------------------------------------
(* Properties of runWithRetry (RetrySpec) *)

IsQuotaFailure(out) ==
  out.kind = "throw" /\ IsQuotaText(ErrorText(out.message))

IsTransientFailure(out) ==
  /\ out.kind = "throw"
  /\ ~IsQuotaText(ErrorText(out.message))
  /\ IsTransientText(ErrorText(out.message))

\* C9: a failure of the wrapped operation with a quota-exhaustion message,
\* on the first attempt or on a retry, is the last invocation: runWithRetry
\* has thrown to its caller, and it has waited only before the earlier
\* attempts (one wait per earlier failure, none for this one).  A quota
\* failure of the first attempt therefore leaves exactly one invocation.
C9_QuotaShortCircuit ==
  \A k \in 1..Len(rw.history) :
    IsQuotaFailure(rw.history[k]) =>
      /\ k = Len(rw.history)
      /\ rw.status = "threw"
      /\ Len(rw.waits) = k - 1

\* a quota failure met on the second retry, after two waits
C9_Witness ==
  /\ rw.status = "threw"
  /\ Len(rw.history) = 3
  /\ IsQuotaFailure(rw.history[3])
  /\ Len(rw.waits) = 2

\* C10: runWithRetry(fn, 3, 4000) over an operation that fails twice with a
\* transient error and then succeeds invokes it exactly 3 times, waits 4000
\* and then 8000, and returns the value of the third invocation; after the
\* two failures alone it has waited 4000 and 8000 and has not given up.
C10_BackoffGrowth ==
  ( /\ rw.retries0 = 3
    /\ rw.baseDelay0 = 4000
    /\ Len(rw.history) >= 2
    /\ IsTransientFailure(rw.history[1])
    /\ IsTransientFailure(rw.history[2]) )
  => /\ Len(rw.waits) >= 2
     /\ SubSeq(rw.waits, 1, 2) = <<4000, 8000>>
     /\ Len(rw.history) = 2 => rw.status \in {"waiting", "calling"}
     /\ (Len(rw.history) >= 3 /\ rw.history[3].kind = "value") =>
          /\ Len(rw.history) = 3
          /\ rw.waits = <<4000, 8000>>
          /\ rw.status = "returned"
          /\ rw.result = rw.history[3].val

C10_Witness ==
  /\ rw.retries0 = 3
  /\ rw.baseDelay0 = 4000
  /\ rw.status = "returned"
  /\ Len(rw.history) = 3
  /\ IsTransientFailure(rw.history[1])
  /\ IsTransientFailure(rw.history[2])
  /\ rw.result = "value"
  /\ rw.waits = <<4000, 8000>>

---------------------------------------------------------------------------
(* Properties of executeAssetGeneration under the Dashboard *)

Flag(scene, f) == scene.progress_status[f]

RunIds == 1..Len(runs)

\* C1: when an invocation has returned, every mutation of a step that
\* completed (its result set in scenes[i]) has been given to onUpdate and
\* to saveToIndexedDB: the local array equals the scenes of the last
\* document emitted and saved, also when stopSignal.stopped became true
\* while the step's remote call was in flight.
C1_CompletedStepCheckpointed ==
  \A r \in RunIds :
    runs[r].pc = "returned" => runs[r].scenes = runs[r].ckpt

\* C2: at most one remote generation call is in flight at any time, over
\* every sequence of Start / Pause clicks and the auto-start timer.
C2_OneCallInFlight ==
  Cardinality({r \in RunIds : InFlight(runs[r])}) <= 1

\* C3: an invocation throws to its caller only a failure whose message is
\* a quota-exhaustion message; every other failure of a collaborator is
\* absorbed inside the run.
C3_OnlyQuotaCrosses ==
  \A r \in RunIds :
    runs[r].pc = "threw" => IsQuotaText(ErrorText(runs[r].error))

\* the fallback's downgrade of scene `old` to scene `new`
IsDowngrade(old, new) == old.type = "video" /\ new.type = "image"

\* C5: in the document the Dashboard holds, a progress flag of a scene that
\* is true stays true in every later state, over every sequence of
\* pipeline runs and regenerations; only is_video_generated may be reset,
\* and only together with the video-to-image downgrade.
C5_FlagMonotonicity ==
  [][\A k \in 1..NumScenes : \A f \in FlagNames :
       Flag(DocScenes(project)[k], f) =>
         \/ Flag(DocScenes(project)'[k], f)
         \/ /\ f = "is_video_generated"
            /\ IsDowngrade(DocScenes(project)[k], DocScenes(project)'[k])]_vars

\* C6: the scenes of a document that was given to onUpdate are not changed
\* afterwards by the invocation that emitted it.
C6_EmittedSnapshotImmutable ==
  [][\A r \in RunIds :
       runs[r].emitted => runs'[r].scenes = runs[r].scenes]_vars

StoredFlag(k, f) ==
  /\ store.present
  /\ k <= Len(store.scenes)
  /\ Flag(store.scenes[k], f)

\* C7: when an invocation is aborted by an exception, every step it had
\* completed before (every flag it set, also those of the scene it was
\* working on) is already in the store.
C7_AbortLosesOnlyInFlightStep ==
  \A r \in RunIds :
    runs[r].pc = "threw" =>
      \A k \in 1..Len(runs[r].scenes) : \A f \in FlagNames :
        (Flag(runs[r].scenes[k], f) /\ ~Flag(runs[r].input[k], f))
          => StoredFlag(k, f)

\* the step of the loop body a remote call belongs to
StepOf(fn) ==
  CASE fn = "image" -> 1
    [] fn = "inspect" -> 2
    [] fn \in {"video", "split", "grid"} -> 3
    [] fn = "speech" -> 4
    [] OTHER -> 0

\* this step of the behaviour makes invocation r start a remote call: a
\* first attempt, a retry after the backoff, or the next call of a step
StartsCall(r) ==
  /\ runs'[r].pc = "call"
  /\ runs[r].pc # "call" \/ runs[r].fn # runs'[r].fn

\* C8, as the program behaves: while stopSignal.stopped is set, an
\* invocation starts a remote call only to finish the step it is in: a
\* retry attempt of runWithRetry, or the narration split and the grid
\* image that follow the video call, in the same scene.  It starts no
\* call of a later step or of a later scene.
C8_StopFinishesStepOnly ==
  [][stopped =>
       \A r \in RunIds :
         StartsCall(r) =>
           /\ runs[r].pc \in {"call", "wait"}
           /\ runs'[r].i = runs[r].i
           /\ StepOf(runs'[r].fn) = StepOf(runs[r].fn)]_vars

\* C8, in its strong form: while stopSignal.stopped is set, an invocation starts
\* no remote call at all: no retry attempt, no narration split, no grid
\* image, no later step, no later scene.
C8_StopStartsNoCall ==
  [][stopped => \A r \in RunIds : ~StartsCall(r)]_vars

\* stopped while the fallback is running: the grid image is in flight
\* after the narration split, under a stop that is still set
C8_Witness ==
  /\ stopped
  /\ \E r \in RunIds : runs[r].pc = "call" /\ runs[r].fn = "grid"

---------------------------------------------------------------------------
(* Resuming (ResumeSpec) *)

\* the document the Dashboard holds and the document in the store once an
\* invocation on the initial document has run uninterrupted to its end
FinalOf(c) ==
  [project |-> IF c.emitted THEN c.scenes ELSE c.input,
   store |-> IF c.emitted THEN Saved(c.ckpt) ELSE EmptyStore]

\* C4: with fixed answers of the services and a fixed video capability, a
\* first invocation that returned (complete, or stopped by Pause) followed
\* by a second one on the document the Dashboard then holds leaves the
\* same final document, in the Dashboard and in the store, as one
\* uninterrupted invocation on the initial document.
C4_ResumeEqualsUninterrupted ==
  ( /\ Len(runs) = 2
    /\ runs[1].pc = "returned"
    /\ Over(runs[2])
    /\ ~stopped )
  => LET final == FinalOf(Uninterrupted(NewRun(initialData))) IN
       /\ DocScenes(project) = final.project
       /\ store = final.store

---------------------------------------------------------------------------
(* Further properties of runWithRetry (RetrySpec) *)

IsOtherFailure(out) ==
  /\ out.kind = "throw"
  /\ ~IsQuotaText(ErrorText(out.message))
  /\ ~IsTransientText(ErrorText(out.message))

Terminal == rw.status \in {"returned", "threw"}

\* C11: runWithRetry(fn, r, baseDelay) invokes fn at most r + 1 times: the
\* retries left and the waits made always add up to r, and the k-th wait is
\* 2^(k-1) * baseDelay.  Over an operation that only fails with transient
\* non-quota errors it ends after exactly r + 1 invocations and r waits
\* baseDelay, 2 * baseDelay, ..., and returns null.
C11_RetryBounded ==
  rw.status # "idle" =>
    /\ Len(rw.history) <= rw.retries0 + 1
    /\ rw.retries + Len(rw.waits) = rw.retries0
    /\ \A k \in 1..Len(rw.waits) : rw.waits[k] = 2^(k - 1) * rw.baseDelay0
    /\ rw.baseDelay = 2^Len(rw.waits) * rw.baseDelay0
    /\ ( /\ Terminal
         /\ \A k \in 1..Len(rw.history) : IsTransientFailure(rw.history[k]) )
       => /\ Len(rw.history) = rw.retries0 + 1
          /\ Len(rw.waits) = rw.retries0
          /\ rw.status = "returned"
          /\ rw.result = Null

\* retries = 3 used up by transient failures: four invocations, three waits
C11_Witness ==
  /\ rw.status = "returned"
  /\ rw.retries0 = MaxRetries
  /\ Len(rw.history) = MaxRetries + 1
  /\ \A k \in 1..Len(rw.history) : IsTransientFailure(rw.history[k])
  /\ Len(rw.waits) = MaxRetries

---------------------------------------------------------------------------
(* Properties of the steps under fixed services (ResumeSpec) *)

\* how the service fn answers for the scene at position k
Tok(k, fn) == oracle.out[k][fn]

FailTokens == {"transient", "other", "empty"}

\* invocation c has gone through step n of the scene at position k without
\* leaving the loop at a break or by an exception
PastStep(c, k, n) ==
  \/ c.i > k
  \/ /\ c.i = k
     /\ \/ c.pc \in {"save", "delay"}
        \/ c.pc \in {"call", "wait"} /\ StepOf(c.fn) > n

\* the segments splitNarrationInto4Cuts returns when it answers in full
FourCuts == [j \in 1..MaxCuts |-> j]

\* scene k is a video scene whose image succeeds, whose video is not
\* produced (capability absent, or an empty answer), whose narration splits
\* into 4 segments and whose grid image succeeds
FallbackSucceeds(k) ==
  /\ initialData[k].type = "video"
  /\ Tok(k, "image") = "ok"
  /\ ~oracle.veo \/ Tok(k, "video") = "empty"
  /\ Tok(k, "split") = "ok"
  /\ Tok(k, "grid") = "ok"

\* C13: for such a scene, once an invocation is past the video-or-fallback
\* step the scene has type image, planned_layout GRID_2X2, the 4 returned
\* segments as cuts, narration_full equal to the original narration, the
\* grid image as visual_url and is_video_generated false.
C13_FallbackCorrect ==
  \A k \in 1..NumScenes : FallbackSucceeds(k) =>
    \A r \in RunIds : PastStep(runs[r], k, 3) =>
      LET scene == runs[r].scenes[k] IN
        /\ scene.type = "image"
        /\ scene.planned_layout = "GRID_2X2"
        /\ Len(scene.cuts) = 4
        /\ scene.cuts = FourCuts
        /\ scene.narration_full = initialData[k].scripts.narration
        /\ scene.assets.visual_url = "grid"
        /\ ~Flag(scene, "is_video_generated")

\* the capability is there, the video call answers empty, and the run is at
\* the speech of the scene it has just rewritten
C13_Witness ==
  \E r \in RunIds : \E k \in 1..NumScenes :
    /\ FallbackSucceeds(k)
    /\ oracle.veo
    /\ runs[r].i = k
    /\ runs[r].pc = "call"
    /\ runs[r].fn = "speech"
    /\ runs[r].scenes[k].planned_layout = "GRID_2X2"

\* C14: in every document state a scene whose cuts are populated holds
\* exactly four cuts, whatever the narration split returned (nothing, one
\* to three segments, four segments).
C14_CutsAreFour ==
  \A r \in RunIds : \A k \in 1..Len(runs[r].scenes) :
    runs[r].scenes[k].cuts # <<>> => Len(runs[r].scenes[k].cuts) = MaxCuts

\* the eligibility test of the video-or-fallback step
VideoEligible(scene) ==
  /\ scene.type = "video"
  /\ Flag(scene, "is_image_generated")
  /\ ~Flag(scene, "is_video_generated")

\* scene k is a video scene whose image succeeds, whose video is not
\* produced, and whose fallback fails: no segment from the split, or no
\* grid image
FallbackFails(k) ==
  /\ initialData[k].type = "video"
  /\ Tok(k, "image") = "ok"
  /\ ~oracle.veo \/ Tok(k, "video") = "empty"
  /\ Tok(k, "split") \in FailTokens \/ Tok(k, "grid") \in FailTokens

\* invocation r takes this step of the behaviour
Moves(r) == runs'[r] # runs[r]

\* C15: when the fallback of a scene fails, the split and the grid call
\* leave every scene of the invocation as it was (type, planned_layout,
\* cuts, narration_full, assets, flags), and once the invocation has left
\* the step the scene is still eligible for it, so that a later invocation
\* attempts it again.
C15_FailedFallbackLeavesScene ==
  [][\A r \in RunIds :
       LET c == runs[r] IN
       ( /\ c.pc = "call"
         /\ c.fn \in {"split", "grid"}
         /\ FallbackFails(c.i)
         /\ Moves(r) )
       => /\ runs'[r].scenes = c.scenes
          /\ runs'[r].pc # "threw"
          /\ (runs'[r].pc = "wait" \/ VideoEligible(runs'[r].scenes[c.i]))
          /\ LET scene == runs'[r].scenes[c.i] IN
               /\ scene.planned_layout = "SINGLE"
               /\ scene.cuts = <<>>
               /\ scene.narration_full = Null]_vars

\* the second invocation attempts the fallback of the scene again
C15_Witness ==
  /\ Len(runs) = 2
  /\ runs[1].pc = "returned"
  /\ runs[2].pc = "call"
  /\ runs[2].fn = "split"
  /\ FallbackFails(runs[2].i)
  /\ runs[1].i > runs[2].i

\* the inspection call of scene k fails every time it is made, with a
\* failure other than exhausted quota, or yields nothing
InspectFails(k) ==
  /\ Tok(k, "image") = "ok"
  /\ Tok(k, "inspect") \in FailTokens

\* C16: when the inspection call of a scene with a generated image always
\* fails, the invocation does not abort; the step ends with
\* is_image_inspected = true and the default inspection_data
\* (SINGLE, 1, 'Auto-inspection failed'), and unless a stop was requested the
\* invocation goes on to a later step of the scene.
C16_InspectionDegrades ==
  [][\A r \in RunIds :
       LET c == runs[r] IN
       ( /\ c.pc = "call"
         /\ c.fn = "inspect"
         /\ InspectFails(c.i)
         /\ Moves(r) )
       => /\ Flag(c.scenes[c.i], "is_image_generated")
          /\ runs'[r].pc # "threw"
          /\ runs'[r].pc # "wait" =>
               /\ Flag(runs'[r].scenes[c.i], "is_image_inspected")
               /\ runs'[r].scenes[c.i].inspection_data = DefaultInspection
               /\ \/ stopped /\ runs'[r].pc = "returned"
                  \/ /\ runs'[r].pc = "call"
                     /\ runs'[r].i = c.i
                     /\ StepOf(runs'[r].fn) > 2]_vars

\* an invocation that has passed the failed inspection of scene k
C16_Witness ==
  \E r \in RunIds : \E k \in 1..NumScenes :
    /\ InspectFails(k)
    /\ runs[r].pc = "call"
    /\ runs[r].i = k
    /\ runs[r].fn = "speech"
    /\ runs[r].scenes[k].inspection_data = DefaultInspection
    /\ Flag(runs[r].scenes[k], "is_image_inspected")

\* what the last completed checkpoint of invocations 1..r wrote
LastCheckpoint(r) ==
  LET E == {q \in 1..r : runs[q].emitted} IN
  IF E = {} THEN EmptyStore
  ELSE Saved(runs[CHOOSE q \in E : \A p \in E : p <= q].ckpt)

\* C17: when a call wrapped in runWithRetry fails with exhausted quota, the
\* invocation ends by throwing that failure at once (no wait, no retry), it
\* never makes another remote call, and the store holds exactly what the last
\* completed checkpoint wrote.
C17_QuotaAborts ==
  [][\A r \in RunIds :
       LET c == runs[r] IN
       /\ ( /\ c.pc = "call"
            /\ c.fn # "video"
            /\ Tok(c.i, c.fn) = "quota"
            /\ Moves(r) )
          => /\ runs'[r].pc = "threw"
             /\ IsQuotaText(ErrorText(runs'[r].error))
             /\ runs'[r].scenes = c.scenes
             /\ runs'[r].i = c.i
             /\ store' = store
             /\ store' = LastCheckpoint(r)
       /\ c.pc = "threw" => runs'[r] = c /\ store' = store]_vars

\* an invocation aborted by exhausted quota in the middle of a scene, after
\* another scene was checkpointed
C17_Witness ==
  \E r \in RunIds :
    /\ runs[r].pc = "threw"
    /\ IsQuotaText(ErrorText(runs[r].error))
    /\ runs[r].i = 2
    /\ Tok(2, "inspect") = "quota"
    /\ Flag(runs[r].scenes[2], "is_image_generated")
    /\ store = Saved(runs[r].ckpt)
    /\ store.present

\* the invocation has left scene k: for the delay before the next scene,
\* or, when a stop was requested, for its end
LeavesScene(d, k) ==
  \/ ~stopped /\ d.pc = "delay" /\ d.i = k
  \/ stopped /\ d.pc = "returned" /\ d.i = k + 1

\* C18: when generateImage or generateSpeech yields nothing (empty, or null
\* after the retries), the flag of the step stays false and no scene
\* changes, the invocation does not abort, and it goes on: after the image
\* step with the audio step of the scene if that is still due (unless a stop
\* was requested), after the audio step with the checkpoint of what the
\* scene gained and, unless a stop was requested, the next scene.
C18_EmptyIsPending ==
  [][\A r \in RunIds :
       LET c == runs[r]
           d == runs'[r] IN
       ( /\ c.pc = "call"
         /\ c.fn \in {"image", "speech"}
         /\ Tok(c.i, c.fn) \in FailTokens
         /\ Moves(r) )
       => /\ d.scenes = c.scenes
          /\ d.pc # "threw"
          /\ c.fn = "image" =>
               /\ ~Flag(d.scenes[c.i], "is_image_generated")
               /\ d.scenes[c.i].assets.visual_url
                    = initialData[c.i].assets.visual_url
               /\ \/ d.pc = "wait"
                  \/ stopped /\ d.pc = "returned"
                  \/ /\ ~Flag(c.scenes[c.i], "is_audio_generated")
                     /\ d.pc = "call" /\ d.fn = "speech" /\ d.i = c.i
                  \/ /\ Flag(c.scenes[c.i], "is_audio_generated")
                     /\ LeavesScene(d, c.i)
          /\ c.fn = "speech" =>
               /\ ~Flag(d.scenes[c.i], "is_audio_generated")
               /\ d.scenes[c.i].assets.audio_url
                    = initialData[c.i].assets.audio_url
               /\ \/ d.pc = "wait"
                  \/ c.isDirty /\ d.pc = "save" /\ d.i = c.i
                  \/ ~c.isDirty /\ LeavesScene(d, c.i)]_vars

\* the image of scene 1 stayed pending and the invocation is at work on
\* scene 2, the audio of scene 1 being generated
C18_Witness ==
  \E r \in RunIds :
    /\ Tok(1, "image") \in FailTokens
    /\ runs[r].pc = "call"
    /\ runs[r].i = 2
    /\ ~Flag(runs[r].scenes[1], "is_image_generated")
    /\ Flag(runs[r].scenes[1], "is_audio_generated")

---------------------------------------------------------------------------
(* Emitting and saving (Spec) *)

\* C19: every document handed to onUpdate is already persisted: once
\* onUpdate(newData) has been called for a scene, the store holds newData's
\* scenes, also while the save of that document is still awaited and after
\* a save that failed.
C19_EmittedIsPersisted ==
  \A r \in RunIds :
    /\ runs[r].emitted
    /\ project = SnapshotOf(r)
    /\ runs[r].pc \in {"save", "delay"}
    => store = Saved(runs[r].ckpt)

---------------------------------------------------------------------------
(* The order of the scenes (OrderSpec) *)

\* Documents whose scene_index values are 1..NumScenes in any order of the
\* array: nothing in the program assigns scene_index or sorts the array
ShuffledDocs ==
  {d \in [1..NumScenes -> UNION {InitialScenes(k) : k \in 1..NumScenes}] :
     \A j, k \in 1..NumScenes : j # k => d[j].scene_index # d[k].scene_index}

OrderInit ==
  Mounted(ShuffledDocs,
          [runs |-> MaxRuns, faults |-> MaxFaults, regens |-> 0],
          FreeOracle)

OrderSpec == OrderInit /\ [][Next]_vars

\* C20: scenes are visited in ascending scene_index order: while a remote
\* call is in flight for a scene, every scene the invocation visited before
\* it has a smaller scene_index.
C20_AscendingSceneIndex ==
  \A r \in RunIds :
    InFlight(runs[r]) =>
      \A j \in 1..(runs[r].i - 1) :
        runs[r].scenes[j].scene_index < runs[r].scenes[runs[r].i].scene_index

---------------------------------------------------------------------------
(* The order of the calls of one invocation (Spec) *)

\* the place of each remote call in the loop body
Rank(fn) ==
  CASE fn = "image" -> 1
    [] fn = "inspect" -> 2
    [] fn = "video" -> 3
    [] fn = "split" -> 4
    [] fn = "grid" -> 5
    [] fn = "speech" -> 6

\* the invocation is inside a remote call: awaiting it, or awaiting the
\* backoff before calling it again
InCall(c) == c.pc \in {"call", "wait"}

\* C21: within a scene the calls of an invocation come in the order image,
\* inspection, video-or-fallback (video, split, grid), audio, and the calls
\* of a scene are all over before the first call of a later scene: the
\* scene index never goes back, a call that follows another one in the same
\* scene is a later one of the body (the same one after a backoff), and after
\* the checkpoint of a scene no call of that scene is made.
C21_StepOrder ==
  [][\A r \in RunIds :
       LET c == runs[r]
           d == runs'[r] IN
       /\ d.i >= c.i
       /\ (InCall(c) /\ InCall(d) /\ d.i = c.i /\ Moves(r)) =>
            IF c.pc = "call" /\ d.pc = "call"
              THEN Rank(d.fn) > Rank(c.fn)
              ELSE d.fn = c.fn
       /\ (InCall(c) /\ InCall(d)) => d.i = c.i
       /\ (c.pc \in {"save", "delay"} /\ InCall(d)) => d.i = c.i + 1]_vars

\* the audio call of the second scene, after the image and the inspection of
\* that scene were made by the same invocation
C21_Witness ==
  \E r \in RunIds :
    /\ runs[r].pc = "call"
    /\ runs[r].fn = "speech"
    /\ runs[r].i = 2
    /\ ~Flag(runs[r].input[2], "is_image_generated")
    /\ Flag(runs[r].scenes[2], "is_image_inspected")
    /\ Flag(runs[r].scenes[1], "is_audio_generated")

---------------------------------------------------------------------------
(* What each step writes (Spec) *)

\* scene `after` is scene `before` but for the asset field and the flag
\* named, the flag having gone from false to true
OwnFields(before, after, asset, flag) ==
  /\ ~before.progress_status[flag]
  /\ after.progress_status[flag]
  /\ [after EXCEPT !.assets[asset] = before.assets[asset],
                   !.progress_status[flag] = FALSE] = before

\* C22: a step that succeeds sets its own flag and writes only its own
\* fields of the scene in hand: the image step visual_url and
\* is_image_generated; the inspection inspection_data and
\* is_image_inspected; the audio step audio_url and is_audio_generated; a
\* successful video visual_url, visual_filename and is_video_generated.
\* Every other scene of the invocation is untouched.
C22_StepWritesOwnFields ==
  [][\A r \in RunIds :
       LET c == runs[r]
           d == runs'[r] IN
       ( /\ c.pc = "call"
         /\ c.fn \in {"image", "inspect", "video", "speech"}
         /\ d.scenes # c.scenes )
       => LET before == c.scenes[c.i]
              after == d.scenes[c.i] IN
          /\ \A k \in 1..Len(c.scenes) : k # c.i => d.scenes[k] = c.scenes[k]
          /\ Len(d.scenes) = Len(c.scenes)
          /\ c.fn = "image" =>
               OwnFields(before, after, "visual_url", "is_image_generated")
          /\ c.fn = "speech" =>
               OwnFields(before, after, "audio_url", "is_audio_generated")
          /\ c.fn = "inspect" =>
               /\ ~Flag(before, "is_image_inspected")
               /\ Flag(after, "is_image_inspected")
               /\ [after EXCEPT
                     !.inspection_data = before.inspection_data,
                     !.progress_status.is_image_inspected = FALSE] = before
          /\ c.fn = "video" =>
               /\ ~Flag(before, "is_video_generated")
               /\ Flag(after, "is_video_generated")
               /\ [after EXCEPT
                     !.assets.visual_url = before.assets.visual_url,
                     !.assets.visual_filename = before.assets.visual_filename,
                     !.progress_status.is_video_generated = FALSE] = before]_vars

\* a video scene with its image, its inspection, its video and its audio,
\* all made by one invocation
C22_Witness ==
  \E r \in RunIds :
    /\ runs[r].pc = "save"
    /\ runs[r].input[runs[r].i] = FreshScene(runs[r].i, "video")
    /\ \A f \in FlagNames : Flag(runs[r].scenes[runs[r].i], f)

---------------------------------------------------------------------------
(* Steps already done (ResumeSpec) *)

\* the flag that makes the step of call fn ineligible
FlagOf(fn) ==
  CASE fn = "image" -> "is_image_generated"
    [] fn = "inspect" -> "is_image_inspected"
    [] fn \in {"video", "split", "grid"} -> "is_video_generated"
    [] fn = "speech" -> "is_audio_generated"

\* no step of the loop body is eligible for the scene
SceneComplete(scene) ==
  /\ Flag(scene, "is_image_generated")
  /\ Flag(scene, "is_image_inspected")
  /\ Flag(scene, "is_audio_generated")
  /\ scene.type = "video" => Flag(scene, "is_video_generated")

Complete(scenes) == \A k \in 1..Len(scenes) : SceneComplete(scenes[k])

\* C23: an invocation makes no call of a step for a scene whose flag of
\* that step was true in the document it was started on; started on a
\* document whose scenes are all complete, it makes no generation call,
\* hands no document to onUpdate and starts no save.
C23_NoRerun ==
  \A r \in RunIds :
    LET c == runs[r] IN
    /\ InCall(c) => ~Flag(c.input[c.i], FlagOf(c.fn))
    /\ Complete(c.input) =>
         /\ c.pc \in {"probe", "delay", "returned"}
         /\ ~c.emitted
         /\ ~c.isDirty
         /\ c.scenes = c.input

\* a second invocation, started on the complete document the first one
\* left, has gone through every scene and returned
C23_Witness ==
  /\ Len(runs) = 2
  /\ Complete(runs[2].input)
  /\ runs[2].pc = "returned"
  /\ runs[2].i = NumScenes + 1
  /\ ~stopped

---------------------------------------------------------------------------
(* The video capability (Spec) *)

\* C24: checkVeoAvailability is awaited once by each invocation, first of
\* all: an invocation starts at the probe, before which it has made no call
\* and reached no scene; once the probe has settled the invocation never
\* awaits it again and veoAvailable keeps its value to the end, whatever the
\* types of the scenes.
C24_ProbeOnce ==
  [][\A r \in 1..Len(runs') :
       LET d == runs'[r] IN
       /\ r \notin RunIds => d.pc = "probe"
       /\ d.pc = "probe" =>
            /\ d.i = 1
            /\ d.scenes = d.input
            /\ ~d.emitted
            /\ r \in RunIds => runs[r].pc = "probe"
       /\ (r \in RunIds /\ runs[r].pc # "probe") =>
            d.veoAvailable = runs[r].veoAvailable]_vars

\* the second video scene of an invocation is served with the answer the
\* probe gave before the first
C24_Witness ==
  \E r \in RunIds :
    /\ runs[r].pc = "call"
    /\ runs[r].fn = "video"
    /\ runs[r].i = 2
    /\ runs[r].veoAvailable
    /\ Flag(runs[r].scenes[1], "is_video_generated")

\* the invocation is inside the video-or-fallback step of scene k
InStep3(c, k) == InCall(c) /\ c.i = k /\ StepOf(c.fn) = 3

\* C25: an invocation whose probe answered that the video capability is
\* unavailable never calls generateVideo; it enters the video-or-fallback
\* step of a scene with the narration split, and it does not go past that
\* step leaving a scene eligible for it without having been in the step.
C25_UnavailableGoesToFallback ==
  [][\A r \in RunIds :
       LET c == runs[r]
           d == runs'[r] IN
       (Moves(r) /\ ~d.veoAvailable) =>
         /\ InCall(d) => d.fn # "video"
         /\ (InStep3(d, d.i) /\ ~InStep3(c, d.i)) =>
              d.pc = "call" /\ d.fn = "split"
         /\ ( /\ ~Over(d)
              /\ PastStep(d, d.i, 3)
              /\ ~PastStep(c, d.i, 3)
              /\ ~InStep3(c, d.i) )
            => ~VideoEligible(d.scenes[d.i])]_vars

\* without the capability, the second video scene goes to the split as the
\* first one did
C25_Witness ==
  \E r \in RunIds :
    /\ ~runs[r].veoAvailable
    /\ runs[r].pc = "call"
    /\ runs[r].fn = "split"
    /\ runs[r].i = 2
    /\ runs[r].input[1].type = "video"
    /\ runs[r].scenes[1].planned_layout = "GRID_2X2"

\* C26: with the capability available, the one generateVideo call of a
\* scene either produces the video or is followed at once, in the same pass
\* over the scene, by the narration split; it is not made again (no backoff,
\* no second call).
C26_VideoFailureFallsBack ==
  [][\A r \in RunIds :
       LET c == runs[r]
           d == runs'[r] IN
       (c.pc = "call" /\ c.fn = "video" /\ Moves(r)) =>
         /\ c.veoAvailable
         /\ d.pc # "wait"
         /\ ~(d.pc = "call" /\ d.fn = "video")
         /\ \/ Flag(d.scenes[c.i], "is_video_generated")
            \/ d.pc = "call" /\ d.fn = "split" /\ d.i = c.i]_vars

Mp4Name == <<"v", ".", "m", "p", "4">>

\* C27: when generateVideo answers with a video, the scene gets
\* is_video_generated = true, the video as visual_url and its
\* visual_filename with .mp4 in place of .png; its type stays video and its
\* planned_layout, cuts and narration_full are as before.
C27_VideoSuccess ==
  [][\A r \in RunIds :
       LET c == runs[r]
           d == runs'[r] IN
       (c.pc = "call" /\ c.fn = "video" /\ d.scenes # c.scenes) =>
         LET before == c.scenes[c.i]
             after == d.scenes[c.i] IN
         /\ Flag(after, "is_video_generated")
         /\ after.assets.visual_url = "vid"
         /\ before.assets.visual_filename = PngName
         /\ after.assets.visual_filename = Mp4Name
         /\ after.type = "video"
         /\ after.planned_layout = before.planned_layout
         /\ after.cuts = before.cuts
         /\ after.narration_full = before.narration_full
         /\ after.planned_layout = "SINGLE"
         /\ after.cuts = <<>>
         /\ after.narration_full = Null]_vars

\* a scene whose video was generated
C27_Witness ==
  \E r \in RunIds : \E k \in 1..NumScenes :
    /\ Flag(runs[r].scenes[k], "is_video_generated")
    /\ runs[r].scenes[k].assets.visual_url = "vid"
    /\ runs[r].scenes[k].assets.visual_filename = Mp4Name
    /\ ~Flag(runs[r].input[k], "is_video_generated")

---------------------------------------------------------------------------
(* The text that is read aloud (SpeechSpec) *)

\* what a script may hold as tts_text and as narration_full
TtsTexts == {Null, "", "tts"}
BackupTexts == {Null, "", "full"}

\* Documents whose first scene has any of these texts, of either type
TextDocs ==
  {[k \in 1..NumScenes |->
      IF k = 1
        THEN [FreshScene(1, type) EXCEPT !.scripts.tts_text = tts,
                                         !.narration_full = full]
        ELSE FreshScene(k, "image")] :
     type \in {"image", "video"}, tts \in TtsTexts, full \in BackupTexts}

SpeechInit ==
  Mounted(TextDocs,
          [runs |-> MaxRuns, faults |-> MaxFaults, regens |-> MaxRegen],
          FreeOracle)

SpeechSpec == SpeechInit /\ [][RegenNext]_vars

\* the text the priority order gives for a scene
ByPriority(scene, text) ==
  /\ scene.scripts.tts_text \notin {Null, ""} => text = scene.scripts.tts_text
  /\ ( /\ scene.scripts.tts_text \in {Null, ""}
       /\ scene.narration_full \notin {Null, ""} )
     => text = scene.narration_full
  /\ ( /\ scene.scripts.tts_text \in {Null, ""}
       /\ scene.narration_full \in {Null, ""} )
     => text = scene.scripts.narration

---------------------------------------------------------------------------
(* A document run end to end (ScenarioSpec) *)

ScenarioScenes == 3

\* a scene of a project file that was written before the writer and the
\* director had marked it
Unmarked(scene) ==
  [scene EXCEPT !.progress_status.is_script_done = FALSE,
                !.progress_status.is_prompt_done = FALSE]

\* Documents of ScenarioScenes scenes of any types, with no asset, marked by
\* the writer and the director or not
ScenarioDocs ==
  {[k \in 1..ScenarioScenes |->
      IF marked THEN FreshScene(k, types[k])
                ELSE Unmarked(FreshScene(k, types[k]))] :
     types \in [1..ScenarioScenes -> {"image", "video"}], marked \in BOOLEAN}

OkProfile == Profile("ok", "ok", "ok", "ok", "ok", "ok")

ScenarioProfiles ==
  {OkProfile, Profile("ok", "transient", "ok", "ok", "ok", "ok")}

ScenarioOracles ==
  {[free |-> FALSE, veo |-> v, out |-> o] :
     v \in BOOLEAN, o \in [1..ScenarioScenes -> ScenarioProfiles]}

ScenarioInit ==
  \E o \in ScenarioOracles :
    Mounted(ScenarioDocs, [runs |-> 1, faults |-> 0, regens |-> 0], o)

ScenarioSpec == ScenarioInit /\ [][Next]_vars

\* the scenario: every scene is of type image and has none of its assets,
\* every remote call succeeds at its first attempt
ImageOnlyAllOk ==
  \A k \in 1..ScenarioScenes :
    /\ initialData[k].type = "image"
    /\ \A f \in FlagNames : ~Flag(initialData[k], f)
    /\ oracle.out[k] = OkProfile

\* the invocation is at the call fn of scene k
AtCall(d, k, fn) == d.pc = "call" /\ d.i = k /\ d.fn = fn

\* C29, as the program behaves: on an image-only document with no asset,
\* with every call succeeding at once and no stop requested, the invocation
\* goes scene by scene through exactly one image call, one inspection call
\* and one audio call, in that order, then the checkpoint and the delay;
\* it makes no video, split or grid call and never waits for a retry; it
\* ends with is_image_generated, is_image_inspected and is_audio_generated
\* true in every scene, in the Dashboard's document and in the store, and
\* with is_script_done and is_prompt_done as the document came.
C29_Scenario ==
  [][\A r \in RunIds :
       LET c == runs[r]
           d == runs'[r] IN
       (ImageOnlyAllOk /\ ~stopped /\ ~stopped' /\ Moves(r)) =>
         /\ c.pc = "probe" => AtCall(d, 1, "image")
         /\ c.pc = "call" =>
              /\ c.fn \in {"image", "inspect", "speech"}
              /\ Flag(d.scenes[c.i], FlagOf(c.fn))
              /\ c.fn = "image" => AtCall(d, c.i, "inspect")
              /\ c.fn = "inspect" => AtCall(d, c.i, "speech")
              /\ c.fn = "speech" => d.pc = "save" /\ d.i = c.i
         /\ c.pc = "save" => d.pc = "delay" /\ d.i = c.i
         /\ c.pc = "delay" =>
              IF c.i < ScenarioScenes
                THEN AtCall(d, c.i + 1, "image")
                ELSE d.pc = "returned" /\ d.i = ScenarioScenes + 1
         /\ c.pc \notin {"wait", "returned", "threw"}
         /\ d.pc = "returned" =>
              /\ \A k \in 1..ScenarioScenes :
                   /\ Flag(d.scenes[k], "is_image_generated")
                   /\ Flag(d.scenes[k], "is_image_inspected")
                   /\ Flag(d.scenes[k], "is_audio_generated")
                   /\ d.scenes[k].type = "image"
                   /\ d.scenes[k].planned_layout = "SINGLE"
                   /\ d.scenes[k].progress_status.is_script_done
                        = initialData[k].progress_status.is_script_done
                   /\ d.scenes[k].progress_status.is_prompt_done
                        = initialData[k].progress_status.is_prompt_done
              /\ project' = SnapshotOf(r)
              /\ store' = Saved(d.scenes)]_vars

\* the scenario has run to its end
C29_Witness ==
  /\ ImageOnlyAllOk
  /\ ~stopped
  /\ Len(runs) = 1
  /\ runs[1].pc = "returned"
  /\ runs[1].i = ScenarioScenes + 1
  /\ store = Saved(runs[1].scenes)

\* C29, in its strong form: the scenario started with all six flags false
\* ends with the five flags other than is_video_generated true in every
\* scene.
C29_FiveFlagsTrue ==
  ( /\ ImageOnlyAllOk
    /\ \A k \in 1..ScenarioScenes :
         /\ ~initialData[k].progress_status.is_script_done
         /\ ~initialData[k].progress_status.is_prompt_done
    /\ ~stopped
    /\ Len(runs) = 1
    /\ runs[1].pc = "returned" )
  => \A k \in 1..ScenarioScenes :
       /\ runs[1].scenes[k].progress_status.is_script_done
       /\ runs[1].scenes[k].progress_status.is_prompt_done
       /\ Flag(runs[1].scenes[k], "is_image_generated")
       /\ Flag(runs[1].scenes[k], "is_image_inspected")
       /\ Flag(runs[1].scenes[k], "is_audio_generated")

---------------------------------------------------------------------------
(* Inspected only once generated (RegenSpec) *)

\* is_image_inspected implies is_image_generated in every scene of scenes
InspectedImpliesGenerated(scenes) ==
  \A k \in 1..Len(scenes) :
    Flag(scenes[k], "is_image_inspected")
      => Flag(scenes[k], "is_image_generated")

\* C30: starting from a document in which every inspected scene has its
\* image, this stays so in every document of the program: the scenes of
\* each invocation, the document the Dashboard holds, the last checkpoint
\* and the store, through the pipeline and the regenerations.
C30_InspectedImpliesGenerated ==
  InspectedImpliesGenerated(initialData) =>
    /\ InspectedImpliesGenerated(DocScenes(project))
    /\ InspectedImpliesGenerated(store.scenes)
    /\ \A r \in RunIds :
         /\ InspectedImpliesGenerated(runs[r].scenes)
         /\ InspectedImpliesGenerated(runs[r].ckpt)

\* a scene was inspected by the pipeline and its image regenerated
\* afterwards: the document holds it with its image and not inspected, the
\* invocation's array with its image and inspected
C30_Witness ==
  \E r \in RunIds : \E k \in 1..NumScenes :
    /\ project.run = 0
    /\ Flag(runs[r].scenes[k], "is_image_inspected")
    /\ Flag(project.scenes[k], "is_image_generated")
    /\ ~Flag(project.scenes[k], "is_image_inspected")
    /\ project.scenes[k].assets.visual_url = "regen"

---------------------------------------------------------------------------
(* The downgrade over successive invocations (ResumeSpec) *)

\* the scene as the fallback rewrites it
Downgraded(scene) ==
  /\ scene.type = "image"
  /\ scene.planned_layout = "GRID_2X2"
  /\ scene.cuts # <<>>

\* the invocation is in the video-or-fallback step of the scene at k
InVideoOrFallback(c, k) ==
  /\ c.i = k
  /\ c.pc \in {"call", "wait"}
  /\ c.fn \in {"video", "split", "grid"}

\* C31: once the fallback of an invocation has rewritten a scene, that
\* invocation and every invocation started after it hold the scene with
\* type image, planned_layout GRID_2X2, is_video_generated false and the
\* same cuts and narration_full, and none of them is in the video call, the
\* narration split or the grid call of that scene.
C31_DowngradePermanent ==
  \A r \in RunIds : \A k \in 1..NumScenes :
    Downgraded(runs[r].scenes[k]) =>
      \A q \in RunIds : q >= r =>
        /\ Downgraded(runs[q].scenes[k])
        /\ ~Flag(runs[q].scenes[k], "is_video_generated")
        /\ runs[q].scenes[k].cuts = runs[r].scenes[k].cuts
        /\ runs[q].scenes[k].narration_full = runs[r].scenes[k].narration_full
        /\ ~InVideoOrFallback(runs[q], k)

---------------------------------------------------------------------------
(* Termination (FairResumeSpec): every await of an invocation settles *)

\* an await of invocation r settles: the probe, a remote call, a backoff
\* or the inter-scene timer, the store write
RunStep(r) ==
  /\ r \in RunIds
  /\ \/ ProbeSettles(r)
     \/ ImageSettles(r)
     \/ InspectSettles(r)
     \/ VideoSettles(r)
     \/ SplitSettles(r)
     \/ GridSettles(r)
     \/ SpeechSettles(r)
     \/ BackoffElapses(r)
     \/ SaveSettles(r)
     \/ DelayElapses(r)

\* invocation r is suspended at an await: RunStep(r) is enabled
Awaiting(r) == r \in RunIds /\ ~Over(runs[r])

\* this step of the behaviour is a RunStep(r) step: it changes runs[r]
Settled(r) == r \in RunIds /\ runs'[r] # runs[r]

\* Every await settles: weak fairness of RunStep(r) for each invocation,
\* WF_vars(RunStep(r)), written as "infinitely often not enabled, or
\* infinitely often taken" with Awaiting for ENABLED <<RunStep(r)>>_vars
\* and Settled for <<RunStep(r)>>_vars
FairResumeSpec ==
  /\ ResumeInit
  /\ [][ResumeNext]_vars
  /\ \A r \in 1..(MaxRuns + 1) :
       []<>(~Awaiting(r)) \/ []<><<Settled(r)>>_vars

\* the invocations of fn one runWithRetry call can make; generateVideo is
\* awaited bare
Attempts(fn) == IF fn = "video" THEN 1 ELSE DefaultRetries + 1

\* the invocations the steps after fn can make in the same scene
CallsAfter(fn) ==
  LET later == {g \in Fns : Rank(g) > Rank(fn)}
      RECURSIVE Sum(_)
      Sum(S) == IF S = {} THEN 0
                ELSE LET g == CHOOSE g \in S : TRUE
                     IN Attempts(g) + Sum(S \ {g})
  IN Sum(later)

CallsPerScene == Attempts("image") + CallsAfter("image")

\* the remote invocations invocation c can still see settle: those of the
\* call it is in (the one in flight or due after the backoff, and the
\* retries left), of the later steps of its scene and of the later scenes
CallsAhead(c) ==
  CASE Over(c) -> 0
    [] c.pc = "probe" -> Len(c.scenes) * CallsPerScene
    [] c.pc \in {"call", "wait"} ->
         (IF c.fn = "video" THEN 1 ELSE c.retries + 1)
           + CallsAfter(c.fn) + (Len(c.scenes) - c.i) * CallsPerScene
    [] c.pc \in {"save", "delay"} -> (Len(c.scenes) - c.i) * CallsPerScene

\* C32: provided every await settles, every invocation that was started
\* returns or throws, stopped or not; it goes over the scenes once (the
\* loop index never decreases), and every remote invocation that settles
\* takes one off the invocations it can still make, which start at
\* CallsPerScene for each scene and never grow.
C32_Terminates ==
  /\ \A r \in 1..(MaxRuns + 1) :
       (Len(runs) >= r) ~> (Len(runs) >= r /\ Over(runs[r]))
  /\ [][\A r \in RunIds :
          LET c == runs[r] d == runs'[r] IN
          Moves(r) =>
            /\ d.i >= c.i
            /\ CallsAhead(d) <= CallsAhead(c)
            /\ c.pc = "call" => CallsAhead(d) < CallsAhead(c)]_vars

\* an invocation went over all the scenes and returned although the
\* inspection of scene 1 failed on every attempt, and a second one that was
\* stopped has returned before the end
C32_Witness ==
  /\ Len(runs) = 2
  /\ Tok(1, "inspect") = "transient"
  /\ runs[1].pc = "returned"
  /\ runs[1].i = NumScenes + 1
  /\ runs[2].pc = "returned"
  /\ runs[2].i <= NumScenes

---------------------------------------------------------------------------
(* saveToIndexedDB and loadProject on their own (PersistSpec) *)

\* the last clock reading of a behaviour; the clock starts at FirstClock
MaxClock == 4

\* a ScriptData: meta (title, and timestamp once it was saved),
\* global_style, scenes
Document(timestamp, scenes) ==
  [meta |-> [title |-> "title", timestamp |-> timestamp],
   global_style |-> "style",
   scenes |-> scenes]

PersistDocs ==
  {Document(t, d) : t \in {NoTimestamp, FirstClock - 1}, d \in {MixedDoc, <<>>}}

DataWithoutTimestamp(data, now) == data

\* { ...data, meta: { ...data.meta, timestamp: Date.now() } }
DataWithTimestamp(data, now) == [data EXCEPT !.meta.timestamp = now]

\* the entry set(DB_KEY, value) leaves: a structured clone of value
SavedDocument(value) ==
  [present |-> TRUE, scenes |-> value.scenes, meta |-> value.meta,
   global_style |-> value.global_style]

\* get(DB_KEY): the value of the entry, undefined when there is none
ValueAt(entry) ==
  IF entry.present
    THEN [meta |-> entry.meta, global_style |-> entry.global_style,
          scenes |-> entry.scenes]
    ELSE NullValue

PersistInit ==
  Mounted({MixedDoc}, [runs |-> 0, faults |-> 0, regens |-> 0], FreeOracle)

\* saveToIndexedDB(data) up to await set(DB_KEY, dataWithTimestamp)
SaveCalled ==
  /\ persist.status \in {"idle", "returned"}
  /\ \E data \in PersistDocs, now \in persist.now..MaxClock :
       persist' = [persist EXCEPT !.op = "save", !.status = "set",
                                  !.data = data, !.now = now,
                                  !.stamped = DataWithTimestamp(data, now),
                                  !.result = NullValue]
  /\ UNCHANGED <<initialData, project, isRunning, stopped, timer, runs,
                 regen, store, oracle, budget, rw, localStorage, quotaLog>>

\* set(...) settles: return dataWithTimestamp, or catch and return data
SetSettles ==
  /\ persist.status = "set"
  /\ \E ok \in BOOLEAN :
       /\ store' = IF ok THEN SavedDocument(persist.stamped) ELSE store
       /\ persist' = [persist EXCEPT
                        !.status = "returned",
                        !.ok = ok,
                        !.result = IF ok THEN persist.stamped
                                         ELSE persist.data,
                        !.last = IF ok THEN [data |-> persist.data,
                                             now |-> persist.now]
                                       ELSE persist.last]
  /\ UNCHANGED <<initialData, project, isRunning, stopped, timer, runs,
                 regen, oracle, budget, rw, localStorage, quotaLog>>

\* loadProject() up to await get(DB_KEY)
LoadCalled ==
  /\ persist.status \in {"idle", "returned"}
  /\ persist' = [persist EXCEPT !.op = "load", !.status = "get",
                                !.data = NullValue,
                                !.stamped = NullValue,
                                !.result = NullValue]
  /\ UNCHANGED <<initialData, project, isRunning, stopped, timer, runs,
                 regen, store, oracle, budget, rw, localStorage, quotaLog>>

\* get(...) settles: return (value || null), or catch and return null
GetSettles ==
  /\ persist.status = "get"
  /\ \E ok \in BOOLEAN :
       persist' = [persist EXCEPT
                     !.status = "returned",
                     !.ok = ok,
                     !.result = IF ok THEN ValueAt(store) ELSE NullValue]
  /\ UNCHANGED <<initialData, project, isRunning, stopped, timer, runs,
                 regen, store, oracle, budget, rw, localStorage, quotaLog>>

PersistNext ==
  \/ SaveCalled
  \/ SetSettles
  \/ LoadCalled
  \/ GetSettles

PersistSpec == PersistInit /\ [][PersistNext]_vars

\* a equals b in every field except meta.timestamp
SameButTimestamp(a, b) ==
  /\ a # NullValue
  /\ b # NullValue
  /\ a.scenes = b.scenes
  /\ a.global_style = b.global_style
  /\ [a.meta EXCEPT !.timestamp = 0] = [b.meta EXCEPT !.timestamp = 0]

\* C33: a save that succeeds leaves at the key, and returns, its argument
\* with meta.timestamp set to the clock reading of the save and every other
\* field as it was; a save that fails leaves the store as it is and returns
\* its argument itself, and in both cases it returns (it has no way to
\* throw).  A load that succeeds returns what the last successful save
\* stored (its argument but for the timestamp, stamped at that save), and
\* null when nothing was saved; a load whose store call fails returns null.
C33_RoundTrip ==
  [][/\ (persist.status = "set" /\ persist' # persist) =>
          /\ persist'.status = "returned"
          /\ persist'.ok =>
               /\ ValueAt(store') = persist'.result
               /\ SameButTimestamp(persist'.result, persist.data)
               /\ persist'.result.meta.timestamp = persist.now
          /\ ~persist'.ok =>
               /\ store' = store
               /\ persist'.result = persist.data
     /\ (persist.status = "get" /\ persist' # persist) =>
          /\ persist'.status = "returned"
          /\ (persist'.ok /\ persist.last # NullValue) =>
               /\ SameButTimestamp(persist'.result, persist.last.data)
               /\ persist'.result.meta.timestamp = persist.last.now
          /\ (~persist'.ok \/ persist.last = NullValue) =>
               persist'.result = NullValue]_vars

\* a document that carried an older timestamp was saved, a later save of
\* another document failed, and the load returned the first one with the
\* stamp of its save
C33_Witness ==
  /\ persist.op = "load"
  /\ persist.status = "returned"
  /\ persist.result # NullValue
  /\ persist.last # NullValue
  /\ persist.last.data.meta.timestamp = FirstClock - 1
  /\ persist.result.meta.timestamp = FirstClock
  /\ persist.now = FirstClock + 1
  /\ ~store.present \/ store.meta.timestamp = FirstClock

---------------------------------------------------------------------------
(* The snapshot of each scene (Spec) *)

\* the invocation is done with the scene at k: it went on to a later
\* scene, or it is over
LeftScene(c, k) == c.i > k \/ (Over(c) /\ c.i = k)

\* C34: a scene that an invocation has changed is, once the invocation is
\* done with it, in the document given to onUpdate and saveToIndexedDB;
\* the emit-and-save of a scene comes once, after the last call of the
\* scene, only for a scene that was changed, and the save has settled
\* before the invocation starts a call of a later scene.
C34_SnapshotIffChanged ==
  /\ [](\A r \in RunIds : \A k \in 1..Len(runs[r].scenes) :
          LeftScene(runs[r], k) => runs[r].ckpt[k] = runs[r].scenes[k])
  /\ [][\A r \in RunIds :
          LET c == runs[r] d == runs'[r] IN
          Moves(r) =>
            /\ (d.pc = "save") =>
                 /\ c.pc = "call"
                 /\ d.i = c.i
                 /\ d.scenes[d.i] # d.input[d.i]
            /\ (c.pc = "save") => d.pc \in {"delay", "returned"}
            /\ (d.pc = "call" /\ d.i > c.i) => c.pc = "delay"]_vars

---------------------------------------------------------------------------
(* Regeneration and the invocations in flight (RegenSpec) *)

\* C35: a regeneration (regenerateSceneImage, regenerateSceneAudio) starts
\* only when no executeAssetGeneration invocation is in flight, over every
\* order of Start, Pause and regenerate clicks.
C35_NoRegenDuringRun ==
  [][(\E g \in regen' : g \notin regen) =>
       \A r \in RunIds : Over(runs[r])]_vars

---------------------------------------------------------------------------
(* The regenerated image and the next invocation (RegenSpec) *)

\* the scene at k as regenerateSceneImage leaves it
RegeneratedAt(scenes, k) ==
  /\ scenes[k].assets.visual_url = "regen"
  /\ Flag(scenes[k], "is_image_generated")
  /\ ~Flag(scenes[k], "is_image_inspected")

\* the scene at k after the inspection of the regenerated image
ReinspectedAt(scenes, k) ==
  /\ Flag(scenes[k], "is_image_generated")
  /\ Flag(scenes[k], "is_image_inspected")
  /\ scenes[k].inspection_data \in {InspectionOf("regen"), DefaultInspection}

\* C36: (a) a regenerateSceneImage that succeeds leaves the scene in the
\* Dashboard's document with the new visual_url, is_image_generated true
\* and is_image_inspected false, and with its other flags, type, cuts,
\* narration_full and audio as they were, and leaves the other scenes as
\* they were; (b) the scene stays so in the document until an invocation
\* has inspected the new image; (c) an invocation that starts while the
\* document holds the scene so works on that scene; (d) an invocation that
\* works on it makes no image call for it, and once it is through the
\* inspection step the scene holds the inspection of the new image.
C36_RegeneratedImage ==
  [][/\ \A g \in regen :
          (g.kind = "image" /\ g \notin regen' /\ project' # project) =>
            \A k \in 1..NumScenes :
              LET old == DocScenes(project)[k]
                  new == DocScenes(project)'[k]
              IN IF old.scene_index = g.index
                   THEN /\ RegeneratedAt(DocScenes(project)', k)
                        /\ new.type = old.type
                        /\ new.planned_layout = old.planned_layout
                        /\ new.cuts = old.cuts
                        /\ new.narration_full = old.narration_full
                        /\ new.scripts = old.scripts
                        /\ new.assets.audio_url = old.assets.audio_url
                        /\ Flag(new, "is_audio_generated")
                             = Flag(old, "is_audio_generated")
                        /\ Flag(new, "is_video_generated")
                             = Flag(old, "is_video_generated")
                   ELSE new = old
     /\ \A k \in 1..NumScenes :
          RegeneratedAt(DocScenes(project), k) =>
            \/ RegeneratedAt(DocScenes(project)', k)
            \/ ReinspectedAt(DocScenes(project)', k)
     /\ Len(runs') = Len(runs) + 1 =>
          \A k \in 1..NumScenes :
            RegeneratedAt(DocScenes(project), k) =>
              RegeneratedAt(runs'[Len(runs')].scenes, k)
     /\ \A r \in RunIds : \A k \in 1..NumScenes :
          RegeneratedAt(runs[r].input, k) =>
            /\ ~(runs'[r].i = k /\ runs'[r].pc = "call"
                   /\ runs'[r].fn = "image")
            /\ PastStep(runs'[r], k, 2) =>
                 ReinspectedAt(runs'[r].scenes, k)]_vars

---------------------------------------------------------------------------
(* The inspection and the current visual (Spec) *)

\* C37: in every scene of an invocation that has is_image_inspected true,
\* inspection_data is the inspection of the scene's current visual_url, or
\* the default that stands for a failed inspection; also after the video
\* and after the grid image have replaced visual_url.
C37_InspectionOfCurrentVisual ==
  \A r \in RunIds : \A k \in 1..Len(runs[r].scenes) :
    LET scene == runs[r].scenes[k] IN
    Flag(scene, "is_image_inspected") =>
      scene.inspection_data \in
        {InspectionOf(scene.assets.visual_url), DefaultInspection}

---------------------------------------------------------------------------
(* The input of an invocation (Spec) *)

\* C38: no step of an invocation changes what it was called with: the
\* scenes of projectData stay as they were when the invocation copied them
\* (every scene object included), the Dashboard's initialData and the
\* arrays of the other invocations are not touched; what it changes is its
\* own array, and the Dashboard and the store receive the changes only as
\* the new document of an emit-and-save.  As long as the invocation has
\* emitted nothing, the document it was called with is still the
\* Dashboard's, with the scenes it had.
C38_InputUntouched ==
  /\ [](\A r \in RunIds :
          (Len(runs) = 1 /\ ~runs[r].emitted) =>
            /\ project = ValueDoc(initialData)
            /\ runs[r].input = initialData)
  /\ [][\A r \in RunIds :
          LET c == runs[r] d == runs'[r] IN
          Moves(r) =>
            /\ d.input = c.input
            /\ initialData' = initialData
            /\ \A q \in RunIds : q # r => runs'[q] = runs[q]
            /\ project' # project =>
                 /\ project' = SnapshotOf(r)
                 /\ d.pc = "save"
                 /\ d.ckpt = d.scenes
            /\ store' # store =>
                 /\ c.pc = "save"
                 /\ store' = Saved(c.ckpt)]_vars

\* an invocation that changed scenes, emitted them and then was aborted by
\* an exception: its input is still the document it was mounted with
C38_Witness ==
  \E r \in RunIds :
    /\ runs[r].pc = "threw"
    /\ runs[r].emitted
    /\ runs[r].scenes # runs[r].input
    /\ runs[r].input = initialData
    /\ store.present

---------------------------------------------------------------------------
(* Quota before transient (RetrySpec) *)

\* a failure whose text holds a quota indicator and a transient one
IsQuotaAndTransient(out) ==
  /\ out.kind = "throw"
  /\ IsQuotaText(ErrorText(out.message))
  /\ IsTransientText(ErrorText(out.message))

\* C39: a failure whose lower-cased text contains a quota indicator (the
\* bare word quota included) together with a transient indicator (429,
\* resource_exhausted, 503) is treated as a quota failure: whatever retries
\* remain, the operation is not invoked again, no wait is added for it, the
\* retry budget and the delay are left as they were, and runWithRetry
\* throws instead of returning null or a value.
C39_QuotaBeforeTransient ==
  /\ [](\A k \in 1..Len(rw.history) :
          IsQuotaAndTransient(rw.history[k]) =>
            /\ k = Len(rw.history)
            /\ rw.status = "threw"
            /\ rw.result = Null)
  /\ [][(/\ rw.status = "calling"
         /\ Len(rw.history') = Len(rw.history) + 1
         /\ IsQuotaAndTransient(rw.history'[Len(rw.history')]))
        => /\ rw.status' = "threw"
           /\ rw.waits' = rw.waits
           /\ rw.retries' = rw.retries
           /\ rw.baseDelay' = rw.baseDelay]_vars

\* a message with 503, resource_exhausted and the bare word quota thrown at
\* a runWithRetry with retries left, after a transient failure was retried
C39_Witness ==
  /\ rw.status = "threw"
  /\ rw.retries > 0
  /\ Len(rw.history) = 2
  /\ IsTransientFailure(rw.history[1])
  /\ rw.history[2].kind = "throw"
  /\ rw.history[2].message = MsgExhaustedQuota
  /\ Includes(ErrorText(MsgExhaustedQuota), Txt503)
  /\ Includes(ErrorText(MsgExhaustedQuota), TxtResourceExhausted)
  /\ Includes(ErrorText(MsgExhaustedQuota), TxtQuota)
  /\ ~Includes(ErrorText(MsgExhaustedQuota), TxtQuotaExceeded)
  /\ Includes(ErrorText(Msg429Quota), Txt429)

---------------------------------------------------------------------------
(* quotaManager (QuotaSpec) *)

MaxCalls == 3
MaxDays == 2

\* model names the callers pass: a text model, an image model, a speech
\* model, a video model, a name with all three indicators, the empty name
ModelNames ==
  {<<"f","l","a","s","h">>,
   <<"f","l","a","s","h","-","i","m","a","g","e">>,
   <<"f","l","a","s","h","-","t","t","s">>,
   <<"v","e","o","-","3">>,
   <<"v","e","o","-","t","t","s","-","i","m","a","g","e">>,
   <<>>}

IdleModel == <<"I","d","l","e">>

\* what an access to localStorage does: it works, setItem throws because
\* the storage is full, or every access throws because it is denied
StorageAccess == {"ok", "full", "denied"}

\* `${STORAGE_KEY_PREFIX}${today}`
StorageKey(today) == <<"gemini_quota_", today>>

\* localStorage.getItem(key): the text, or nothing
GetItem(storage, key) ==
  IF key \in DOMAIN storage THEN storage[key] ELSE <<>>

\* localStorage.setItem(key, text)
SetItem(storage, key, text) ==
  [k \in DOMAIN storage \cup {key} |->
     IF k = key THEN text ELSE storage[k]]

\* JSON.stringify(stats): the members in order, modelCounts nested
StringifyWithoutCounts(stats) ==
  << <<"count", stats.count>>,
     <<"lastUpdated", stats.lastUpdated>>,
     <<"activeModel", stats.activeModel>> >>

Stringify(stats) ==
  << <<"count", stats.count>>,
     <<"lastUpdated", stats.lastUpdated>>,
     <<"activeModel", stats.activeModel>>,
     <<"modelCounts",
       << <<"text", stats.modelCounts.text>>,
          <<"image", stats.modelCounts.image>>,
          <<"audio", stats.modelCounts.audio>>,
          <<"video", stats.modelCounts.video>> >> >> >>

\* parsed[name], or the value the validation puts in its place
Member(parsed, name, default) ==
  IF \E k \in 1..Len(parsed) : parsed[k][1] = name
    THEN parsed[CHOOSE k \in 1..Len(parsed) : parsed[k][1] = name][2]
    ELSE default

DefaultCounts == [text |-> 0, image |-> 0, audio |-> 0, video |-> 0]

DefaultStats(now) ==
  [count |-> 0, lastUpdated |-> now, activeModel |-> IdleModel,
   modelCounts |-> DefaultCounts]

\* JSON.parse(stored) and the shape validation of getStats
ParseStats(stored, now) ==
  LET counts == Member(stored, "modelCounts", <<>>) IN
  [count |-> Member(stored, "count", 0),
   lastUpdated |-> IF Member(stored, "lastUpdated", 0) # 0
                     THEN Member(stored, "lastUpdated", 0)
                     ELSE now,
   activeModel |-> IF Member(stored, "activeModel", <<>>) # <<>>
                     THEN Member(stored, "activeModel", <<>>)
                     ELSE IdleModel,
   modelCounts |-> IF counts # <<>>
                     THEN [text |-> Member(counts, "text", 0),
                           image |-> Member(counts, "image", 0),
                           audio |-> Member(counts, "audio", 0),
                           video |-> Member(counts, "video", 0)]
                     ELSE DefaultCounts]

\* quotaManager.getStats()
GetStats(storage, today, now, access) ==
  IF access = "denied"
    THEN DefaultStats(now)
    ELSE LET stored == GetItem(storage, StorageKey(today)) IN
         IF stored # <<>> THEN ParseStats(stored, now)
                          ELSE DefaultStats(now)

\* the category of a model name: image before tts before veo, else text
ModelType(modelName) ==
  IF Includes(modelName, <<"i","m","a","g","e">>) THEN "image"
  ELSE IF Includes(modelName, <<"t","t","s">>) THEN "audio"
  ELSE IF Includes(modelName, <<"v","e","o">>) THEN "video"
  ELSE "text"

\* quotaManager.increment(modelName): localStorage after the call
Increment(storage, today, now, modelName, access) ==
  LET currentStats == GetStats(storage, today, now, access)
      type == ModelType(modelName)
      newStats ==
        [count |-> currentStats.count + 1,
         lastUpdated |-> now,
         activeModel |-> modelName,
         modelCounts |->
           [currentStats.modelCounts EXCEPT
              ![type] = currentStats.modelCounts[type] + 1]]
  IN IF access = "ok"
       THEN SetItem(storage, StorageKey(today), Stringify(newStats))
       ELSE storage

\* quotaManager.updateModelStatus(modelName): localStorage after the call
UpdateModelStatus(storage, today, now, modelName, access) ==
  LET stats == GetStats(storage, today, now, access)
      newStats == [stats EXCEPT !.activeModel = modelName]
  IN IF access = "ok"
       THEN SetItem(storage, StorageKey(today), Stringify(newStats))
       ELSE storage

QuotaInit ==
  Mounted({MixedDoc}, [runs |-> 0, faults |-> 0, regens |-> 0], FreeOracle)

Called(op, modelName, access) ==
  [quotaLog EXCEPT
     !.now = quotaLog.now + 1,
     !.calls = Append(quotaLog.calls,
                      [op |-> op, model |-> modelName, day |-> quotaLog.day,
                       access |-> access])]

IncrementCalled ==
  /\ Len(quotaLog.calls) < MaxCalls
  /\ \E modelName \in ModelNames, access \in StorageAccess :
       /\ localStorage' = Increment(localStorage, quotaLog.day, quotaLog.now,
                                    modelName, access)
       /\ quotaLog' = Called("increment", modelName, access)
  /\ UNCHANGED <<initialData, project, isRunning, stopped, timer, runs,
                 regen, store, oracle, budget, rw, persist>>

UpdateModelStatusCalled ==
  /\ Len(quotaLog.calls) < MaxCalls
  /\ \E modelName \in ModelNames, access \in StorageAccess :
       /\ localStorage' = UpdateModelStatus(localStorage, quotaLog.day,
                                            quotaLog.now, modelName, access)
       /\ quotaLog' = Called("update", modelName, access)
  /\ UNCHANGED <<initialData, project, isRunning, stopped, timer, runs,
                 regen, store, oracle, budget, rw, persist>>

\* midnight: new Date().toLocaleDateString() gives the next date
DayPasses ==
  /\ quotaLog.day < MaxDays
  /\ quotaLog' = [quotaLog EXCEPT !.day = quotaLog.day + 1,
                                  !.now = quotaLog.now + 1]
  /\ UNCHANGED <<initialData, project, isRunning, stopped, timer, runs,
                 regen, store, oracle, budget, rw, persist, localStorage>>

QuotaNext ==
  \/ IncrementCalled
  \/ UpdateModelStatusCalled
  \/ DayPasses

QuotaSpec == QuotaInit /\ [][QuotaNext]_vars

---------------------------------------------------------------------------
(* Properties of quotaManager (QuotaSpec) *)

\* getStats() now and after the step, with localStorage answering
StatsNow == GetStats(localStorage, quotaLog.day, quotaLog.now, "ok")
StatsNext == GetStats(localStorage', quotaLog'.day, quotaLog'.now, "ok")

SumOfCounts(stats) ==
  stats.modelCounts.text + stats.modelCounts.image +
  stats.modelCounts.audio + stats.modelCounts.video

Categories == {"text", "image", "audio", "video"}

\* the increment calls of the day, and those among them that were stored
IncrementsOfDay(day) ==
  {k \in 1..Len(quotaLog.calls) :
     /\ quotaLog.calls[k].op = "increment"
     /\ quotaLog.calls[k].day = day}

StoredIncrementsOfDay(day) ==
  {k \in IncrementsOfDay(day) : quotaLog.calls[k].access = "ok"}

\* something is stored under the day's key
StoredToday == GetItem(localStorage, StorageKey(quotaLog.day)) # <<>>

\* the call a step has made, if it made one
MadeCall == Len(quotaLog'.calls) = Len(quotaLog.calls) + 1
LastCall == quotaLog'.calls[Len(quotaLog'.calls)]

\* C40 as stated: from an empty store for the day, after any sequence of
\* increment and updateModelStatus calls, getStats().count is the number of
\* increment calls of the day and the sum of the four modelCounts; each
\* increment adds 1 to exactly one category; updateModelStatus changes only
\* activeModel.
C40_CountIsIncrementCalls ==
  /\ [](/\ StatsNow.count = Cardinality(IncrementsOfDay(quotaLog.day))
        /\ StatsNow.count = SumOfCounts(StatsNow))
  /\ [][(MadeCall /\ LastCall.op = "increment") =>
          \E t \in Categories :
            /\ StatsNext.modelCounts[t] = StatsNow.modelCounts[t] + 1
            /\ \A u \in Categories \ {t} :
                 StatsNext.modelCounts[u] = StatsNow.modelCounts[u]]_vars
  /\ [][(MadeCall /\ LastCall.op = "update") =>
          /\ StatsNext.count = StatsNow.count
          /\ StatsNext.modelCounts = StatsNow.modelCounts
          /\ StoredToday =>
               StatsNext.lastUpdated = StatsNow.lastUpdated]_vars

\* C40, amended: getStats().count is the number of increment calls of the
\* day whose localStorage accesses succeeded, and the sum of the four
\* modelCounts; each category holds the stored increments of the day whose
\* model name falls in it (image before tts before veo, else text).  An
\* increment whose accesses succeed adds 1 to count and to exactly that one
\* category and makes its model the active one; an increment whose access
\* fails (setItem throws, or localStorage is denied) is caught and leaves
\* what is stored as it was.  updateModelStatus leaves count, modelCounts
\* and the stored lastUpdated alone, and no call touches another day's key.
C40_CountIsStoredIncrements ==
  /\ [](/\ StatsNow.count =
             Cardinality(StoredIncrementsOfDay(quotaLog.day))
        /\ StatsNow.count = SumOfCounts(StatsNow)
        /\ StatsNow.count <= Cardinality(IncrementsOfDay(quotaLog.day))
        /\ \A t \in Categories :
             StatsNow.modelCounts[t] =
               Cardinality({k \in StoredIncrementsOfDay(quotaLog.day) :
                              ModelType(quotaLog.calls[k].model) = t}))
  /\ [][(MadeCall /\ LastCall.op = "increment") =>
          IF LastCall.access = "ok"
            THEN /\ StatsNext.count = StatsNow.count + 1
                 /\ StatsNext.activeModel =
                      (IF LastCall.model # <<>> THEN LastCall.model
                                                ELSE IdleModel)
                 /\ \A t \in Categories :
                      StatsNext.modelCounts[t] =
                        StatsNow.modelCounts[t] +
                        (IF t = ModelType(LastCall.model) THEN 1 ELSE 0)
            ELSE localStorage' = localStorage]_vars
  /\ [][(MadeCall /\ LastCall.op = "update") =>
          /\ StatsNext.count = StatsNow.count
          /\ StatsNext.modelCounts = StatsNow.modelCounts
          /\ StoredToday =>
               StatsNext.lastUpdated = StatsNow.lastUpdated
          /\ LastCall.access = "ok" =>
               StatsNext.activeModel =
                 (IF LastCall.model # <<>> THEN LastCall.model
                                           ELSE IdleModel)
          /\ LastCall.access # "ok" => localStorage' = localStorage]_vars
  /\ [][MadeCall =>
          \A key \in DOMAIN localStorage :
            key # StorageKey(quotaLog.day) =>
              localStorage'[key] = localStorage[key]]_vars

\* three calls on the second day: an increment for a name that holds veo,
\* tts and image, stored as one image; an increment that found the storage
\* full; an updateModelStatus; the first day's count is still stored
C40_Witness ==
  /\ quotaLog.day = 2
  /\ Len(quotaLog.calls) = 3
  /\ \E k \in StoredIncrementsOfDay(2) :
       /\ Includes(quotaLog.calls[k].model, <<"v","e","o">>)
       /\ Includes(quotaLog.calls[k].model, <<"t","t","s">>)
       /\ ModelType(quotaLog.calls[k].model) = "image"
  /\ \E k \in IncrementsOfDay(2) : quotaLog.calls[k].access = "full"
  /\ quotaLog.calls[3].op = "update"
  /\ StatsNow.count = 1
  /\ StatsNow.modelCounts.image = 1
  /\ Cardinality(IncrementsOfDay(2)) = 2

=============================================================================
